---- MODULE Spec2Model ----
(***************************************************************************)
(* Model of the rotation supervisor of i2c_rotator.py: main, run_script    *)
(* and stop_process, together with the child processes they manage.        *)
(*                                                                         *)
(* Time is counted in ticks of 0.1 s.  time.sleep(x) takes exactly x and   *)
(* every other statement takes no time; log() only prints and is taken not *)
(* to fail.  The process table holds a child from Popen until it is        *)
(* reaped: "running" until it exits (on its own or because of a signal),   *)
(* then a "zombie" until the supervisor's Popen.poll() reaps it, which     *)
(* removes it (os.getpgid then raises ProcessLookupError).  Signals are    *)
(* asynchronous: os.killpg returning says that the signal is sent, not     *)
(* that the child is gone.  os.getpgid and os.killpg of an unreaped child  *)
(* of the supervisor succeed, so the except Exception clause of            *)
(* stop_process is not reached.  KeyboardInterrupt may arrive at any       *)
(* point of the try block, once.                                           *)
(*                                                                         *)
(* The display programs (crypto, sysmon_lcd, fact, joke, word, funpack,    *)
(* word_improved) are modelled by their windowed renderer and their        *)
(* refresh loop.  Their time is counted in units of 0.01 s, so that every  *)
(* hold time, scroll step and loop sleep is a whole number.  A text is a   *)
(* sequence of one-character strings.                                      *)
(*                                                                         *)
(* Specifications: Spec is the rotator with children that are single       *)
(* processes, FairSpec the same under fair scheduling of the supervisor,   *)
(* GroupSpec the rotator with children that start further processes in     *)
(* their process group, NormSpec the first statements of main applied to   *)
(* configured SCRIPTS lists, RenderSpec the renderers applied to inputs,   *)
(* LoopSpec the refresh loops, QuoteSpec the loop of time_quote.py,        *)
(* FunSpec the category selection of funpack.py, WordSpec the fallback     *)
(* word queue of funpack.py and word_improved.py with choose_word,         *)
(* LineSpec the line builders of dollar.py, gold.py, gold_noapi.py and     *)
(* crypto.py applied to inputs, PriceSpec the loops of the three price     *)
(* programs with their cache, and MarkerSpec the loop of crypto.py with    *)
(* its update marker.                                                      *)
(***************************************************************************)
EXTENDS Integers, Sequences, FiniteSets, TLC

VARIABLES
    normalized,    \* main: list of (path, duration) entries
    idx,           \* main: rotation cursor
    current_proc,  \* main: tracked child (None or a child id)
    path,          \* main: path of the entry of the current slot
    duration,      \* main: duration (s) of the entry of the current slot
    elapsed,       \* ticks since start_time
    pc,            \* position of the supervisor
    ret,           \* caller of the running stop_process: "main", "kbd", "exc"
    p,             \* stop_process: its argument
    local,         \* run_script: its local p, the child Popen just created
    polls,         \* stop_process: iterations of the grace loop done
    sleepLeft,     \* ticks left of the time.sleep in progress
    returncode,    \* whether the Popen object of this slot has a returncode
    children,      \* process table: child id -> [st, term, kill]
    how,           \* how the wait loop of the current slot ended
    slots,         \* number of slots begun
    exitedAt,      \* elapsed at which the child of the current slot exited
    stopCalled,    \* children stop_process was invoked on
    activeAtInt,   \* children running when KeyboardInterrupt arrived
    desc,          \* process groups with a running descendant of the child:
                   \* group id -> whether killpg has signalled it
    scripts,       \* SCRIPTS as configured, before normalize_scripts
    prog,          \* display program running ("none": the rotator is modelled)
    full_s,        \* renderer: the full text of the scrolling row
    base_time,     \* renderer: base time (sysmon_lcd: metrics_timer_ts)
    now_ts,        \* renderer: time of the call
    window,        \* renderer: the window returned by the last call
    dpc,           \* position of the display program
    prev,          \* the call before the last one: [now, window], or NoCall
    clock,         \* display program: time.time() at the top of its loop
    last_fetch,    \* display program: last_fetch (sysmon_lcd: last_metrics_time)
    btc_price,     \* crypto: btc_price
    ip,            \* sysmon_lcd: ip
    root_pct,      \* sysmon_lcd: root_pct
    temp_c,        \* sysmon_lcd: temp_c
    previous_ip,        \* sysmon_lcd: module-level previous_ip
    previous_root_pct,  \* sysmon_lcd: module-level previous_root_pct
    mono,                    \* time_quote: time.monotonic() in the loop
    current_quote,           \* time_quote main: current_quote
    quote_selected_time,     \* time_quote main: quote_selected_time
    quote_display_duration,  \* time_quote main: quote_display_duration
    scroll_index,            \* time_quote main: scroll_index
    scroll_required,         \* time_quote main: scroll_required
    scroll_last_step,        \* time_quote main: scroll_last_step
    prev_quote,              \* time_quote main: prev, the quote replaced last
    max_index,               \* highest scroll_index drawn for current_quote
    shown,                   \* number of quotes replaced so far
    last_choice_file,        \* funpack: content of LAST_CHOICE_FILE
    choice,                  \* funpack choose_and_fetch: choice
    header,                  \* funpack main: header
    content,                 \* funpack main: content
    prev_header,             \* header of the refresh before the last one
    refreshes,               \* number of calls of choose_and_fetch so far
    word_index_file,         \* content of WORD_INDEX_FILE: [order, idx]
    returned,                \* words get_next_fallback_word has returned
    last_word_file,          \* word_improved: content of LAST_WORD_FILE
    chosen,                  \* word_improved main: w of w, d = choose_word()
    label,                   \* build_line, fmt: label
    val,                     \* build_line, fmt: val (crypto: price_raw)
    change,                  \* build_eth_line: change_raw
    cached,                  \* build_line(s): cached (crypto: show_star)
    line,                    \* the line returned
    cache,                   \* price programs, main: cache
    cache_file,              \* price programs: content of CACHE_FILE
    rates,                   \* price programs: what the refresh fetched
    vals,                    \* price programs: the two values displayed
    used_cache,              \* price programs, main: used_cache
    lines,                   \* price programs: the two lines written
    last_update_time,        \* crypto main: last_update_time
    eth_price,               \* crypto main: eth_price
    eth_change,              \* crypto main: eth_change
    eth_display,             \* crypto: the ETH row written last
    drawn_at,                \* crypto: the time eth_display was written
    last_success             \* crypto: end of the last successful fetch

rotVars == <<normalized, idx, current_proc, path, duration, elapsed, pc, ret,
             p, local, polls, sleepLeft, returncode, children, how, slots,
             exitedAt, stopCalled, activeAtInt, desc, scripts>>
rowVars == <<prog, full_s, base_time, now_ts, window, dpc, prev>>
loopVars == <<clock, last_fetch, btc_price, ip, root_pct, temp_c, previous_ip,
              previous_root_pct>>
dispVars == <<rowVars, loopVars>>
tqVars == <<mono, current_quote, quote_selected_time, quote_display_duration,
            scroll_index, scroll_required, scroll_last_step, prev_quote,
            max_index, shown>>
fpVars == <<last_choice_file, choice, header, content, prev_header,
            refreshes>>
wdVars == <<word_index_file, returned, last_word_file, chosen>>
lnVars == <<label, val, change, cached, line>>
pxVars == <<cache, cache_file, rates, vals, used_cache, lines>>
mkVars == <<last_update_time, eth_price, eth_change, eth_display, drawn_at,
            last_success>>
extVars == <<wdVars, lnVars, pxVars, mkVars>>
pgmVars == <<tqVars, fpVars, extVars>>
\* what the rotation loop never writes
otherVars == <<scripts, dispVars, pgmVars>>
vars == <<rotVars, dispVars, pgmVars>>

(* ---------------------------- bounds ---------------------------------- *)
MaxEntries == 2      \* longest configured rotation
MaxSlots == 3        \* slots begun before the model stops launching
MaxDesc == 1         \* process groups holding a descendant at one time

(* ------------------------ program constants --------------------------- *)
None == -1                \* Python's None for a child handle
TicksPerSecond == 10      \* one tick is 0.1 s
PollInterval == 5         \* time.sleep(0.5)
GracePolls == 40          \* range(40)
SLEEP_AFTER_STOP == 6     \* 0.6 s

\* SCRIPTS after normalize_scripts: (path, seconds) entries
Entry == {[path |-> "blink.py", duration |-> 1],
          [path |-> "sysmon_lcd.py", duration |-> 2]}
Configs == UNION {[1..n -> Entry] : n \in 1..MaxEntries}

\* the process table: a child is in it from Popen until it is reaped
Launched == DOMAIN children
Running(c) == c \in Launched /\ children[c].st = "running"
Without(c) == [x \in Launched \ {c} |-> children[x]]

\* Popen.poll() is None: no returncode yet and waitpid finds the child running
PollIsNone(c) == ~returncode /\ Running(c)
\* the process table after Popen.poll(): an exited child is reaped
AfterPoll(c) == IF ~returncode /\ c \in Launched /\ children[c].st = "zombie"
                THEN Without(c) ELSE children

\* no display program runs while the rotator is modelled
NoCall == [now |-> -1, window |-> <<>>]
\* Python's None for a text
NoText == <<"None">>
\* the locals of the loop of a display program before its first iteration
LoopOff ==
    /\ clock = 0
    /\ last_fetch = 0
    /\ btc_price = None
    /\ ip = NoText
    /\ root_pct = None
    /\ temp_c = None
    /\ previous_ip = NoText
    /\ previous_root_pct = None
DisplayOff ==
    /\ LoopOff
    /\ prog = "none"
    /\ full_s = <<>>
    /\ base_time = 0
    /\ now_ts = 0
    /\ window = <<>>
    /\ dpc = "off"
    /\ prev = NoCall

\* time_quote does not run
QuoteOff ==
    /\ mono = 0
    /\ current_quote = <<>>
    /\ quote_selected_time = 0
    /\ quote_display_duration = 0
    /\ scroll_index = 0
    /\ scroll_required = FALSE
    /\ scroll_last_step = 0
    /\ prev_quote = NoText
    /\ max_index = 0
    /\ shown = 0
\* funpack's choose_and_fetch is not followed
FunpackOff ==
    /\ last_choice_file = "none"
    /\ choice = "none"
    /\ header = "none"
    /\ content = ""
    /\ prev_header = "none"
    /\ refreshes = 0
\* WORD_INDEX_FILE missing or not readable as an order of the words
NoIndex == [order |-> <<>>, idx |-> 0]
\* get_next_fallback_word and choose_word are not followed
WordOff ==
    /\ word_index_file = NoIndex
    /\ returned = <<>>
    /\ last_word_file = ""
    /\ chosen = ""
\* no line is built
LineOff ==
    /\ label = ""
    /\ val = None
    /\ change = None
    /\ cached = FALSE
    /\ line = <<>>
\* the cache of a price program: {} (also: no file, or not JSON)
NoCache == [full |-> FALSE, a |-> None, b |-> None]
\* the requests of an iteration failed
Failed == [ok |-> FALSE, a |-> None, b |-> None]
\* the price programs do not run
PriceOff ==
    /\ cache = NoCache
    /\ cache_file = NoCache
    /\ rates = Failed
    /\ vals = <<None, None>>
    /\ used_cache = FALSE
    /\ lines = <<>>
\* the update marker of crypto is not followed
MarkerOff ==
    /\ last_update_time = None
    /\ eth_price = None
    /\ eth_change = None
    /\ eth_display = <<>>
    /\ drawn_at = 0
    /\ last_success = None
ExtOff == WordOff /\ LineOff /\ PriceOff /\ MarkerOff
ProgramsOff == QuoteOff /\ FunpackOff /\ ExtOff

TryPcs == {"next", "rs_popen", "rs_created", "loop", "sleep",
           "sp_entry", "sp_term", "sp_wait", "sp_check", "sp_kill", "settle"}

Init ==
    /\ normalized \in Configs
    /\ idx = 0
    /\ current_proc = None
    /\ path = ""
    /\ duration = 0
    /\ elapsed = 0
    /\ pc = "next"
    /\ ret = "main"
    /\ p = None
    /\ local = None
    /\ polls = 0
    /\ sleepLeft = 0
    /\ returncode = FALSE
    /\ children = <<>>
    /\ how = "none"
    /\ slots = 0
    /\ exitedAt = None
    /\ stopCalled = {}
    /\ activeAtInt = {}
    /\ desc = <<>>
    /\ scripts = <<>>
    /\ DisplayOff
    /\ ProgramsOff

(* --------------------------- run_script ------------------------------- *)

\* run_script returned r: current_proc = r; start_time = time.time()
Assign(r) ==
    /\ current_proc' = r
    /\ elapsed' = 0
    /\ pc' = "loop"

\* path, duration = normalized[idx % len(normalized)]
EntryAt(i) == normalized[(i % Len(normalized)) + 1]

\* main reads the entry and calls run_script, which tests os.path.isfile
Main_Next ==
    /\ pc = "next"
    /\ slots < MaxSlots
    /\ path' = EntryAt(idx).path
    /\ duration' = EntryAt(idx).duration
    /\ slots' = slots + 1
    /\ how' = "none"
    /\ exitedAt' = None
    /\ local' = None
    /\ returncode' = FALSE
    /\ \E isfile \in BOOLEAN :
          IF isfile
          THEN pc' = "rs_popen" /\ UNCHANGED <<current_proc, elapsed>>
          ELSE Assign(None)
    /\ UNCHANGED <<normalized, idx, ret, p, polls, sleepLeft, children,
                   stopCalled, activeAtInt>>

\* subprocess.Popen(...): a new child in its own process group, or an error
RunScript_Popen ==
    /\ pc = "rs_popen"
    /\ \/ /\ children' = children @@
                 (idx :> [st |-> "running", term |-> FALSE, kill |-> FALSE])
          /\ local' = idx
          /\ pc' = "rs_created"
          /\ UNCHANGED <<current_proc, elapsed>>
       \/ /\ Assign(None)
          /\ UNCHANGED <<children, local>>
    /\ UNCHANGED <<normalized, idx, path, duration, ret, p, polls, sleepLeft,
                   returncode, how, slots, exitedAt, stopCalled, activeAtInt>>

\* return p; main stores it in current_proc and reads start_time
RunScript_Return ==
    /\ pc = "rs_created"
    /\ Assign(local)
    /\ local' = None
    /\ UNCHANGED <<normalized, idx, path, duration, ret, p, polls, sleepLeft,
                   returncode, children, how, slots, exitedAt, stopCalled,
                   activeAtInt>>

(* -------------------------- stop_process ------------------------------ *)

\* a call stop_process(q) made by caller r
CallStop(q, r) ==
    /\ p' = q
    /\ ret' = r
    /\ pc' = "sp_entry"
    /\ polls' = 0
    /\ stopCalled' = IF q = None THEN stopCalled ELSE stopCalled \cup {q}

\* stop_process returning to main straight into the next slot
StopReturn_NoSettle ==
    /\ p' = None
    /\ polls' = 0
    /\ CASE ret = "main" -> /\ current_proc' = None
                            /\ sleepLeft' = 0
                            /\ pc' = "next"
         [] ret = "kbd"  -> /\ pc' = "exit0"
                            /\ UNCHANGED <<current_proc, sleepLeft>>
         [] ret = "exc"  -> /\ pc' = "raised"
                            /\ UNCHANGED <<current_proc, sleepLeft>>

\* stop_process returns to its caller: main goes on with current_proc = None
\* and time.sleep(SLEEP_AFTER_STOP); the handlers go on to sys.exit(0) / raise
StopReturn ==
    /\ p' = None
    /\ polls' = 0
    /\ CASE ret = "main" -> /\ current_proc' = None
                            /\ sleepLeft' = SLEEP_AFTER_STOP
                            /\ pc' = "settle"
         [] ret = "kbd"  -> /\ pc' = "exit0"
                            /\ UNCHANGED <<current_proc, sleepLeft>>
         [] ret = "exc"  -> /\ pc' = "raised"
                            /\ UNCHANGED <<current_proc, sleepLeft>>

\* os.getpgid(pid) raises ProcessLookupError: no such process any more
LookupFails(c) == c \notin Launched

\* stop_process without its except ProcessLookupError: the error escapes
Stop_Entry_Raises ==
    /\ pc = "sp_entry"
    /\ IF p = None
       THEN StopReturn /\ UNCHANGED ret
       ELSE IF LookupFails(p)
       THEN /\ pc' = "raised"
            /\ ret' = "exc"
            /\ UNCHANGED <<p, polls, current_proc, sleepLeft>>
       ELSE /\ pc' = "sp_term"
            /\ UNCHANGED <<p, polls, current_proc, sleepLeft, ret>>
    /\ UNCHANGED <<normalized, idx, path, duration, elapsed, local,
                   returncode, children, how, slots, exitedAt, stopCalled,
                   activeAtInt>>

\* if p is None: return; pgid = os.getpgid(pid); except ProcessLookupError: pass
Stop_Entry ==
    /\ pc = "sp_entry"
    /\ IF p = None \/ LookupFails(p)
       THEN StopReturn
       ELSE /\ pc' = "sp_term"
            /\ UNCHANGED <<p, polls, current_proc, sleepLeft>>
    /\ UNCHANGED <<normalized, idx, path, duration, elapsed, ret, local,
                   returncode, children, how, slots, exitedAt, stopCalled,
                   activeAtInt>>

\* os.killpg(pgid, sig) delivers sig to every member of the group: the
\* descendants of group g after it
Signalled(g) == [c \in DOMAIN desc |-> desc[c] \/ c = g]

\* os.killpg(pgid, signal.SIGTERM)
Stop_Term ==
    /\ pc = "sp_term"
    /\ children' = [children EXCEPT ![p].term = TRUE]
    /\ desc' = Signalled(p)
    /\ pc' = "sp_wait"
    /\ UNCHANGED <<normalized, idx, current_proc, path, duration, elapsed,
                   ret, p, local, polls, sleepLeft, returncode, how, slots,
                   exitedAt, stopCalled, activeAtInt>>

\* the grace loop is over after this many iterations: range(40)
GraceOver(n) == n >= GracePolls

\* a grace loop that polls until the child has exited, however long
Stop_GracePoll_Unbounded ==
    /\ pc = "sp_wait"
    /\ IF PollIsNone(p)
       THEN UNCHANGED <<polls, pc, children, returncode>>
       ELSE /\ children' = AfterPoll(p)
            /\ returncode' = TRUE
            /\ pc' = "sp_check"
            /\ UNCHANGED polls
    /\ UNCHANGED <<normalized, idx, current_proc, path, duration, elapsed,
                   ret, p, local, sleepLeft, how, slots, exitedAt, stopCalled,
                   activeAtInt>>

\* a grace loop without its break: all 40 iterations are made
Stop_GracePoll_NoBreak ==
    /\ pc = "sp_wait"
    /\ children' = AfterPoll(p)
    /\ returncode' = (returncode \/ ~PollIsNone(p))
    /\ polls' = polls + 1
    /\ pc' = IF GraceOver(polls + 1) THEN "sp_check" ELSE "sp_wait"
    /\ UNCHANGED <<normalized, idx, current_proc, path, duration, elapsed,
                   ret, p, local, sleepLeft, how, slots, exitedAt, stopCalled,
                   activeAtInt>>

\* one iteration of for _ in range(40): poll, break or time.sleep(0.1)
Stop_GracePoll ==
    /\ pc = "sp_wait"
    /\ IF PollIsNone(p)
       THEN /\ polls' = polls + 1
            /\ pc' = IF GraceOver(polls + 1) THEN "sp_check" ELSE "sp_wait"
            /\ UNCHANGED <<children, returncode>>
       ELSE /\ children' = AfterPoll(p)
            /\ returncode' = TRUE
            /\ pc' = "sp_check"
            /\ UNCHANGED polls
    /\ UNCHANGED <<normalized, idx, current_proc, path, duration, elapsed,
                   ret, p, local, sleepLeft, how, slots, exitedAt, stopCalled,
                   activeAtInt>>

\* if p.poll() is None: go on to force-kill; otherwise return
Stop_Check ==
    /\ pc = "sp_check"
    /\ IF PollIsNone(p)
       THEN /\ pc' = "sp_kill"
            /\ UNCHANGED <<p, polls, current_proc, sleepLeft, children,
                           returncode>>
       ELSE /\ children' = AfterPoll(p)
            /\ returncode' = TRUE
            /\ StopReturn
    /\ UNCHANGED <<normalized, idx, path, duration, elapsed, ret, local, how,
                   slots, exitedAt, stopCalled, activeAtInt>>

\* the force-kill step sending SIGTERM a second time
Stop_Kill_TermAgain ==
    /\ pc = "sp_kill"
    /\ children' = [children EXCEPT ![p].term = TRUE]
    /\ desc' = Signalled(p)
    /\ StopReturn
    /\ UNCHANGED <<normalized, idx, path, duration, elapsed, ret, local,
                   returncode, how, slots, exitedAt, stopCalled, activeAtInt>>

\* os.killpg(pgid, signal.SIGKILL); return
Stop_Kill ==
    /\ pc = "sp_kill"
    /\ children' = [children EXCEPT ![p].kill = TRUE]
    /\ desc' = Signalled(p)
    /\ StopReturn
    /\ UNCHANGED <<normalized, idx, path, duration, elapsed, ret, local,
                   returncode, how, slots, exitedAt, stopCalled, activeAtInt>>

(* ------------------------------ main ---------------------------------- *)

\* elapsed >= duration, with the comparison off by one poll
TimeUp_Strict == elapsed > duration * TicksPerSecond

\* elapsed >= duration
TimeUp == elapsed >= duration * TicksPerSecond

\* the wait loop with the result of current_proc.poll() ignored
LoopDecision_NoExitCheck ==
    IF current_proc = None THEN "failed"
    ELSE IF TimeUp THEN "timeup"
    ELSE "sleep"

\* the wait loop without its test for a failed launch
LoopDecision_FailedWaits ==
    IF current_proc # None /\ ~PollIsNone(current_proc) THEN "early"
    ELSE IF TimeUp THEN "timeup"
    ELSE "sleep"

\* which branch one pass of the wait loop takes: the three breaks in the
\* order the code tests them, or time.sleep(0.5)
LoopDecision ==
    IF current_proc = None THEN "failed"
    ELSE IF ~PollIsNone(current_proc) THEN "early"
    ELSE IF TimeUp THEN "timeup"
    ELSE "sleep"

\* one pass of the wait loop up to its break or its time.sleep(0.5); a break
\* goes on to stop_process(current_proc)
Main_Poll ==
    /\ pc = "loop"
    /\ children' = IF current_proc = None
                   THEN children ELSE AfterPoll(current_proc)
    /\ returncode' = (returncode \/
                        (current_proc # None /\ ~PollIsNone(current_proc)))
    /\ IF LoopDecision = "sleep"
       THEN /\ pc' = "sleep"
            /\ sleepLeft' = PollInterval
            /\ UNCHANGED <<how, p, ret, polls, stopCalled>>
       ELSE /\ how' = LoopDecision
            /\ CallStop(current_proc, "main")
            /\ UNCHANGED sleepLeft
    /\ UNCHANGED <<normalized, idx, current_proc, path, duration, elapsed,
                   local, slots, exitedAt, activeAtInt>>

\* time.sleep(0.5), one tick at a time
Main_Sleep ==
    /\ pc = "sleep"
    /\ sleepLeft' = sleepLeft - 1
    /\ elapsed' = elapsed + 1
    /\ pc' = IF sleepLeft = 1 THEN "loop" ELSE "sleep"
    /\ UNCHANGED <<normalized, idx, current_proc, path, duration, ret, p,
                   local, polls, returncode, children, how, slots, exitedAt,
                   stopCalled, activeAtInt>>

\* the cursor advanced twice
Advance_Skip(i) == i + 2

\* the cursor after a slot: idx += 1
Advance(i) == i + 1

\* time.sleep(SLEEP_AFTER_STOP), one tick at a time, then idx += 1
Main_Settle ==
    /\ pc = "settle"
    /\ sleepLeft' = sleepLeft - 1
    /\ IF sleepLeft = 1
       THEN idx' = Advance(idx) /\ pc' = "next"
       ELSE UNCHANGED <<idx, pc>>
    /\ UNCHANGED <<normalized, current_proc, path, duration, elapsed, ret, p,
                   local, polls, returncode, children, how, slots, exitedAt,
                   stopCalled, activeAtInt>>

\* the try block is left for a handler: the locals of the loop are dead
LeaveLoop ==
    /\ elapsed' = 0
    /\ sleepLeft' = 0
    /\ how' = "none"
    /\ exitedAt' = None

\* except KeyboardInterrupt: stop_process(current_proc); sys.exit(0)
KeyboardInterrupt ==
    /\ pc \in TryPcs
    /\ ret = "main"
    /\ activeAtInt' = {c \in Launched : Running(c)}
    /\ CallStop(current_proc, "kbd")
    /\ LeaveLoop
    /\ UNCHANGED <<normalized, idx, current_proc, path, duration, local,
                   returncode, children, slots>>

\* the handler re-raising without stop_process(current_proc)
UnexpectedError_NoStop ==
    /\ pc \in {"loop", "sleep", "settle"}
    /\ pc' = "raised"
    /\ ret' = "exc"
    /\ LeaveLoop
    /\ UNCHANGED <<normalized, idx, current_proc, path, duration, local,
                   returncode, children, slots, activeAtInt, p, polls,
                   stopCalled>>

\* except Exception: stop_process(current_proc); raise -- for an exception
\* raised by a statement of the loop body outside run_script and stop_process
\* (which catch Exception themselves)
UnexpectedError ==
    /\ pc \in {"loop", "sleep", "settle"}
    /\ CallStop(current_proc, "exc")
    /\ LeaveLoop
    /\ UNCHANGED <<normalized, idx, current_proc, path, duration, local,
                   returncode, children, slots, activeAtInt>>

(* ---------------------------- children -------------------------------- *)

\* a running child exits: on its own, or killed by a signal it was sent
ChildExits(c) ==
    /\ Running(c)
    /\ children' = [children EXCEPT ![c].st = "zombie"]
    /\ exitedAt' = IF c = idx /\ pc \in {"rs_created", "loop", "sleep"}
                   THEN (IF pc = "rs_created" THEN 0 ELSE elapsed)
                   ELSE exitedAt
    /\ UNCHANGED <<normalized, idx, current_proc, path, duration, elapsed, pc,
                   ret, p, local, polls, sleepLeft, returncode, how, slots,
                   stopCalled, activeAtInt>>

\* the running child forks (or runs a command): one more process in its
\* group, which has not been signalled
ChildForks(c) ==
    /\ Running(c)
    /\ c \notin DOMAIN desc
    /\ Cardinality(DOMAIN desc) < MaxDesc
    /\ desc' = desc @@ (c :> FALSE)
    /\ UNCHANGED <<normalized, idx, current_proc, path, duration, elapsed, pc,
                   ret, p, local, polls, sleepLeft, returncode, children, how,
                   slots, exitedAt, stopCalled, activeAtInt>>

\* the descendant in group c exits: on its own, or killed by a signal
DescExits(c) ==
    /\ desc' = [x \in DOMAIN desc \ {c} |-> desc[x]]
    /\ UNCHANGED <<normalized, idx, current_proc, path, duration, elapsed, pc,
                   ret, p, local, polls, sleepLeft, returncode, children, how,
                   slots, exitedAt, stopCalled, activeAtInt>>

Next ==
    \/ Main_Next /\ UNCHANGED <<desc, otherVars>>
    \/ RunScript_Popen /\ UNCHANGED <<desc, otherVars>>
    \/ RunScript_Return /\ UNCHANGED <<desc, otherVars>>
    \/ Main_Poll /\ UNCHANGED <<desc, otherVars>>
    \/ Main_Sleep /\ UNCHANGED <<desc, otherVars>>
    \/ Stop_Entry /\ UNCHANGED <<desc, otherVars>>
    \/ Stop_Term /\ UNCHANGED otherVars
    \/ Stop_GracePoll /\ UNCHANGED <<desc, otherVars>>
    \/ Stop_Check /\ UNCHANGED <<desc, otherVars>>
    \/ Stop_Kill /\ UNCHANGED otherVars
    \/ Main_Settle /\ UNCHANGED <<desc, otherVars>>
    \/ KeyboardInterrupt /\ UNCHANGED <<desc, otherVars>>
    \/ UnexpectedError /\ UNCHANGED <<desc, otherVars>>
    \/ \E c \in Launched : ChildExits(c) /\ UNCHANGED <<desc, otherVars>>

Spec == Init /\ [][Next]_vars

\* the rotator with children that start further processes in their group
GroupNext ==
    \/ Next
    \/ \E c \in Launched : ChildForks(c) /\ UNCHANGED otherVars
    \/ \E c \in DOMAIN desc : DescExits(c) /\ UNCHANGED otherVars

GroupSpec == Init /\ [][GroupNext]_vars

StopPcs == {"sp_entry", "sp_term", "sp_wait", "sp_check", "sp_kill"}
RunningSet == {c \in Launched : Running(c)}
\* the child of the current slot, if one was launched, has this id
SlotChild == slots - 1
\* the launch of the current slot failed: run_script returned None
SlotFailed ==
    /\ slots > 0
    /\ pc \notin {"rs_popen", "rs_created"}
    /\ local = None
    /\ SlotChild \notin Launched
    /\ SlotChild \notin stopCalled

TypeOK ==
    /\ idx \in 0..MaxSlots
    /\ current_proc \in {None} \cup 0..MaxSlots
    /\ polls \in 0..GracePolls
    /\ pc \in TryPcs \cup {"exit0", "raised"}

(* ------------------------------ claims -------------------------------- *)

\* C1: at most one child launched by the supervisor is running at any time.
C1_Exclusivity == Cardinality(RunningSet) <= 1

\* C2: when child N+1 has just been launched, no earlier child that
\* stop_process force-killed (SIGKILL sent, child not reaped) is still running:
\* the launch waits for the confirmed termination of child N.
C2_StartAfterConfirmedStop ==
    pc = "rs_created" =>
        \A c \in Launched \ {local} : children[c].kill => ~Running(c)

\* C3: stop_process polls at most GracePolls times; SIGKILL is sent only when
\* the whole grace period has passed after SIGTERM; and every child that
\* stop_process returns from without having seen it exit has been sent
\* SIGTERM and then SIGKILL.
C3_GraceThenForce ==
    /\ polls <= GracePolls
    /\ pc = "sp_kill" =>
          polls = GracePolls /\ p \in Launched /\ children[p].term
    /\ (pc = "settle" /\ SlotChild \in Launched) =>
          children[SlotChild].term /\ children[SlotChild].kill

C3_Witness ==
    /\ pc = "settle"
    /\ Running(SlotChild)
    /\ children[SlotChild].kill

\* C4: once the child of the slot has exited, the supervisor is in the wait
\* loop for at most one poll interval more; it leaves the loop before the
\* duration is used up, stops nothing, and goes on to the next entry.
C4_EarlyExitShortensSlot ==
    /\ (pc \in {"loop", "sleep"} /\ exitedAt # None) =>
          /\ elapsed - exitedAt <= PollInterval
          /\ pc = "sleep" => elapsed - exitedAt < PollInterval
    /\ how = "early" =>
          /\ exitedAt # None
          /\ elapsed - exitedAt <= PollInterval
          /\ pc \in {"sp_entry", "settle", "next"}
          /\ pc = "next" => idx = slots

C4_Witness ==
    /\ how = "early"
    /\ pc = "next"
    /\ exitedAt > 0
    /\ elapsed < duration * TicksPerSecond
    /\ idx = slots

\* C5: slot n (counted from 0) runs entry n mod k, and the cursor is n during
\* the slot and n + 1 after it, however the slot ended.
C5_RotationOrder ==
    /\ pc = "next" /\ ret = "main" => idx = slots
    /\ (pc \in TryPcs \ {"next"} /\ ret = "main") =>
          /\ idx = slots - 1
          /\ path = normalized[((slots - 1) % Len(normalized)) + 1].path
          /\ duration = normalized[((slots - 1) % Len(normalized)) + 1].duration

C5_Witness ==
    /\ Len(normalized) = 2
    /\ normalized[1] # normalized[2]
    /\ slots = 3
    /\ pc = "loop"
    /\ path = normalized[1].path
    /\ how = "none"

\* C6: when the supervisor has exited after a KeyboardInterrupt, stop_process
\* has been called on every child that was running when the interrupt came.
C6_CancellationCascades ==
    pc = "exit0" => activeAtInt \subseteq stopCalled

C8_LaunchFailureIsSkip ==
    (SlotFailed /\ ret = "main") =>
        /\ current_proc = None
        /\ p = None
        /\ elapsed = 0
        /\ pc \in {"loop", "sp_entry", "settle", "next"}
        /\ pc # "loop" => how = "failed"
        /\ pc = "next" => idx = slots

C8_Witness ==
    /\ how = "failed"
    /\ pc = "next"
    /\ idx = slots
    /\ slots > 0
    /\ elapsed = 0

\* C9: the stop of a child that the wait loop saw running begins at an
\* elapsed time t with duration <= t < duration + one poll interval.
C9_DurationBudget ==
    (ret = "main" /\ pc \in StopPcs /\ how \notin {"early", "failed"}) =>
        /\ how = "timeup"
        /\ duration * TicksPerSecond <= elapsed
        /\ elapsed < duration * TicksPerSecond + PollInterval

C9_Witness ==
    /\ how = "timeup"
    /\ pc = "sp_term"
    /\ ret = "main"
    /\ Running(p)
    /\ elapsed = duration * TicksPerSecond

\* C10: a stop_process whose process lookup fails returns to its caller at
\* once, sends no signal and raises nothing; main goes on to the settle delay.
C10_LookupFailureIsStopped ==
    [][(/\ pc = "sp_entry"
        /\ p # None
        /\ p \notin Launched
        /\ (pc' # pc \/ ret' # ret)
        /\ ~(ret = "main" /\ ret' = "kbd"))
       => (/\ ret' = ret
           /\ children' = children
           /\ pc' = CASE ret = "main" -> "settle"
                      [] ret = "kbd"  -> "exit0"
                      [] ret = "exc"  -> "raised"
           /\ ret = "main" => current_proc' = None)]_vars

C10_Witness ==
    /\ pc = "settle"
    /\ how = "early"
    /\ SlotChild \in stopCalled
    /\ SlotChild \notin Launched
    /\ current_proc = None

(* ====================== the display programs ========================== *)

(* ---------------------------- bounds ---------------------------------- *)
MaxTextLen == 18     \* longest text rendered
MaxBase == 7         \* latest base time of a rendered row

(* ------------------------ program constants --------------------------- *)
COLS == 16
SCROLL_GAP == <<" ", " ", " ", " ">>

Programs == {"crypto", "sysmon_lcd", "fact", "joke", "word", "funpack",
             "word_improved"}

\* hold time of each program, in 0.01 s (sysmon_lcd: STATIC_DISPLAY_AFTER_UPDATE)
STATIC_DISPLAY ==
    [crypto |-> 500, sysmon_lcd |-> 200, fact |-> 250, joke |-> 200,
     word |-> 200, funpack |-> 200, word_improved |-> 200]

\* time per scroll step of each program, in 0.01 s (sysmon_lcd: IP_SCROLL_STEP)
SCROLL_STEP ==
    [crypto |-> 50, sysmon_lcd |-> 30, fact |-> 15, joke |-> 15,
     word |-> 20, funpack |-> 15, word_improved |-> 15]

\* the renderers that begin with "if not full_s"
EmptyCheck == {"fact", "joke", "word", "funpack", "word_improved"}

(* --------------------------- Python strings --------------------------- *)
Min(a, b) == IF a <= b THEN a ELSE b

\* str.ljust(width) without the padding
ljust_NoPad(s, width) == s

\* str.ljust(width): pad with spaces on the right, never truncate
ljust(s, width) ==
    IF Len(s) >= width THEN s
    ELSE s \o [i \in 1..(width - Len(s)) |-> " "]

\* s[lo:] : the slice without its upper end
Slice_ToEnd(s, lo, hi) == SubSeq(s, lo + 1, Len(s))

\* s[lo:hi] for 0 <= lo: the slice ends where the string ends
Slice(s, lo, hi) == SubSeq(s, lo + 1, Min(hi, Len(s)))

\* int(a / b) for b > 0: the quotient truncated towards zero
IntOf(a, b) == IF a >= 0 THEN a \div b ELSE -((-a) \div b)

(* ----------------------- the windowed renderer ------------------------ *)

\* "".ljust(COLS) returning the empty string
Blank_Empty(width) == <<>>

\* "".ljust(COLS)
Blank(width) == ljust(<<>>, width)

\* the hold ending at the base time
StaticUntil_NoHold(P, base) == base

\* static_until = base_time + STATIC_DISPLAY
StaticUntil(P, base) == base + STATIC_DISPLAY[P]

\* the length of the text without the gap
total_len_NoGap(scroll) == Len(scroll) - Len(SCROLL_GAP)

\* total_len = len(scroll)
total_len(scroll) == Len(scroll)

\* the quotient rounded to the nearest whole number
ScrollStepOf_Nearest(P, el) == (2 * el + SCROLL_STEP[P]) \div (2 * SCROLL_STEP[P])

\* the scroll beginning one position on
ScrollStepOf_Plus1(P, el) == IntOf(el, SCROLL_STEP[P]) + 1

\* step = int(elapsed / SCROLL_STEP)
ScrollStepOf(P, el) == IntOf(el, SCROLL_STEP[P])

\* the scroll string not doubled
Wrapped_Single(scroll) == scroll

\* wrapped = scroll + scroll
Wrapped(scroll) == scroll \o scroll

\* a scroller driven by the number of calls made, not by the time
Window_CallDriven(P, s, base, now) ==
    IF Len(s) <= COLS THEN ljust(s, COLS)
    ELSE LET scroll == s \o SCROLL_GAP
             calls == IF prev = NoCall THEN 0 ELSE 1
         IN  Slice(Wrapped(scroll), calls, calls + COLS)

\* The body shared by the seven renderers; P selects the constants of the
\* program and whether the body begins with "if not full_s".
Window(P, s, base, now) ==
    IF P \in EmptyCheck /\ s = <<>> THEN Blank(COLS)
    ELSE IF Len(s) <= COLS THEN ljust(s, COLS)
    ELSE LET static_until == StaticUntil(P, base) IN
         IF now < static_until THEN ljust(Slice(s, 0, COLS), COLS)
         ELSE LET scroll == s \o SCROLL_GAP
                  el == now - static_until
                  step == ScrollStepOf(P, el)
                  pos == step % total_len(scroll)
              IN  Slice(Wrapped(scroll), pos, pos + COLS)

crypto_scroll_window(s, base, now) == Window("crypto", s, base, now)
fact_scroll_window(s, base, now) == Window("fact", s, base, now)
joke_scroll_window(s, base, now) == Window("joke", s, base, now)
word_scroll_window(s, base, now) == Window("word", s, base, now)
funpack_scroll_window(s, base, now) == Window("funpack", s, base, now)
word_improved_scroll_window(s, base, now) == Window("word_improved", s, base, now)
\* sysmon_lcd: the base time is the module-level metrics_timer_ts
bottom_window_time_driven(s, now) == Window("sysmon_lcd", s, base_time, now)

\* the call the running program makes with its row's text and base time
Call(now) ==
    CASE prog = "crypto" -> crypto_scroll_window(full_s, base_time, now)
      [] prog = "sysmon_lcd" -> bottom_window_time_driven(full_s, now)
      [] prog = "fact" -> fact_scroll_window(full_s, base_time, now)
      [] prog = "joke" -> joke_scroll_window(full_s, base_time, now)
      [] prog = "word" -> word_scroll_window(full_s, base_time, now)
      [] prog = "funpack" -> funpack_scroll_window(full_s, base_time, now)
      [] prog = "word_improved" ->
             word_improved_scroll_window(full_s, base_time, now)

(* ------------------- the renderer applied to inputs ------------------- *)
Alphabet == <<"a", "b", "c", "d", "e", "f", "g", "h", "i", "j", "k", "l", "m",
              "n", "o", "p", "q", "r", "s", "t", "u", "v", "w", "x", "y", "z">>
\* a text of n characters, all different
Text(n) == [i \in 1..n |-> Alphabet[((i - 1) % Len(Alphabet)) + 1]]
Texts == {Text(n) : n \in {0, 1, COLS - 1} \cup (COLS..MaxTextLen)}
\* the call times that cover the hold and a full cycle of the longest text
Horizon(P) ==
    STATIC_DISPLAY[P] + (MaxTextLen + Len(SCROLL_GAP) + 2) * SCROLL_STEP[P]

\* the rotator does not run while a display program is modelled
RotatorOff ==
    /\ normalized = <<>>
    /\ idx = 0
    /\ current_proc = None
    /\ path = ""
    /\ duration = 0
    /\ elapsed = 0
    /\ pc = "off"
    /\ ret = "main"
    /\ p = None
    /\ local = None
    /\ polls = 0
    /\ sleepLeft = 0
    /\ returncode = FALSE
    /\ children = <<>>
    /\ how = "none"
    /\ slots = 0
    /\ exitedAt = None
    /\ stopCalled = {}
    /\ activeAtInt = {}
    /\ desc = <<>>
    /\ scripts = <<>>

RenderInit ==
    /\ RotatorOff
    /\ ProgramsOff
    /\ prog \in Programs
    /\ full_s \in Texts
    /\ base_time \in {0, MaxBase}
    /\ now_ts \in 0..(base_time + Horizon(prog))
    /\ window = <<>>
    /\ dpc = "call"
    /\ prev = NoCall
    /\ LoopOff

\* one call of the renderer
Render ==
    /\ dpc = "call"
    /\ window' = Call(now_ts)
    /\ dpc' = "shown"
    /\ UNCHANGED <<prog, full_s, base_time, now_ts, prev>>
    /\ UNCHANGED <<rotVars, loopVars, pgmVars>>

\* The program goes on to the next call on the same row: at the same time,
\* a moment later, a moment less than a scroll step later, or exactly a
\* scroll step later.  The call made is remembered.
Later(d) ==
    /\ dpc = "shown"
    /\ prev = NoCall
    /\ prev' = [now |-> now_ts, window |-> window]
    /\ now_ts' = now_ts + d
    /\ dpc' = "call"
    /\ UNCHANGED <<prog, full_s, base_time, window>>
    /\ UNCHANGED <<rotVars, loopVars, pgmVars>>

RenderNext ==
    \/ Render
    \/ \E d \in {0, 1, SCROLL_STEP[prog] - 1, SCROLL_STEP[prog]} : Later(d)

RenderSpec == RenderInit /\ [][RenderNext]_vars

(* ----------------------- claims on the renderer ----------------------- *)
\* the string that scrolls: the text followed by the gap
ScrollOf == full_s \o SCROLL_GAP
\* COLS characters of scroll from position q on, wrapping around its end
Rot(scroll, q) == [i \in 1..COLS |-> scroll[((q + i - 1) % Len(scroll)) + 1]]
HoldEnd == base_time + STATIC_DISPLAY[prog]
\* a call at time t on the row is in the scroll phase
InScroll(t) == Len(full_s) > COLS /\ t >= HoldEnd
\* whole scroll steps elapsed at time t since the end of the hold
FloorStep(t) == (t - HoldEnd) \div SCROLL_STEP[prog]
Spaces(n) == [i \in 1..n |-> " "]

\* C13: in the scroll phase the window is the true modular wraparound of
\* the text followed by the gap: its i-th character is
\* scroll[(pos + i) mod len(scroll)], with pos the number of whole steps
\* since the end of the hold, modulo len(scroll); and the slice of the
\* doubled string never runs past its end.
C13_ModularWraparound ==
    (dpc = "shown" /\ InScroll(now_ts)) =>
        /\ window = Rot(ScrollOf, FloorStep(now_ts) % Len(ScrollOf))
        /\ (FloorStep(now_ts) % Len(ScrollOf)) + COLS <= 2 * Len(ScrollOf)

\* a window that begins at the last character of the gap and wraps around
C13_Witness ==
    /\ dpc = "shown"
    /\ InScroll(now_ts)
    /\ Len(full_s) = MaxTextLen
    /\ FloorStep(now_ts) % Len(ScrollOf) = Len(ScrollOf) - 1
    /\ window = Rot(ScrollOf, Len(ScrollOf) - 1)

\* C14: in the scroll phase the window at time now + one step interval
\* starts exactly one position after the window at time now, modulo the
\* length of the text followed by the gap.
C14_StepAdvancesByOne ==
    (/\ dpc = "shown"
     /\ prev # NoCall
     /\ InScroll(prev.now)
     /\ now_ts = prev.now + SCROLL_STEP[prog]) =>
        \E q \in 0..(Len(ScrollOf) - 1) :
            /\ prev.window = Rot(ScrollOf, q)
            /\ window = Rot(ScrollOf, (q + 1) % Len(ScrollOf))

\* the step that takes the window from the last position back to the first
C14_Witness ==
    /\ dpc = "shown"
    /\ prev # NoCall
    /\ InScroll(prev.now)
    /\ now_ts = prev.now + SCROLL_STEP[prog]
    /\ prev.window = Rot(ScrollOf, Len(ScrollOf) - 1)
    /\ window = Rot(ScrollOf, 0)

\* C15: two calls in the scroll phase whose elapsed scroll time lies in the
\* same step [k * step, (k + 1) * step) return the same window.
C15_SameStepSameWindow ==
    (/\ dpc = "shown"
     /\ prev # NoCall
     /\ InScroll(prev.now)
     /\ FloorStep(prev.now) = FloorStep(now_ts)) =>
        window = prev.window

\* two calls at the two ends of one step
C15_Witness ==
    /\ dpc = "shown"
    /\ prev # NoCall
    /\ InScroll(prev.now)
    /\ now_ts = prev.now + SCROLL_STEP[prog] - 1
    /\ FloorStep(prev.now) = FloorStep(now_ts)
    /\ FloorStep(now_ts) > 0
    /\ window = prev.window

\* C16: for a text longer than COLS, a call before base_time + hold returns
\* exactly the first COLS characters of the text.
C16_HoldShowsStart ==
    (dpc = "shown" /\ Len(full_s) > COLS /\ now_ts < HoldEnd) =>
        window = SubSeq(full_s, 1, COLS)

\* the last moment of the hold of a row whose base time is not zero
C16_Witness ==
    /\ dpc = "shown"
    /\ Len(full_s) > COLS
    /\ base_time = MaxBase
    /\ now_ts = HoldEnd - 1
    /\ window = SubSeq(full_s, 1, COLS)

\* C17: for a text of at most COLS characters every window is the text
\* followed by spaces up to exactly COLS characters, whatever base_time and
\* now are.
C17_ShortTextPadded ==
    (dpc = "shown" /\ Len(full_s) <= COLS) =>
        window = full_s \o Spaces(COLS - Len(full_s))

\* a short text rendered long after the hold of a longer text would end
C17_Witness ==
    /\ dpc = "shown"
    /\ Len(full_s) = COLS - 1
    /\ now_ts > HoldEnd + SCROLL_STEP[prog]
    /\ Len(window) = COLS
    /\ window[COLS] = " "

C19_EmptyTextBlank ==
    (dpc = "shown" /\ full_s = <<>>) => window = Spaces(COLS)

\* a renderer without the test for emptiness called with the empty text
C19_Witness ==
    /\ dpc = "shown"
    /\ full_s = <<>>
    /\ prog \notin EmptyCheck
    /\ window = Spaces(COLS)

\* C25: for every text (empty, short or longer than COLS), every base time
\* and every time of the call (before, at or after the end of the hold),
\* every renderer returns exactly COLS characters.
C25_WindowWidth == dpc = "shown" => Len(window) = COLS

\* the longest text rendered at the very end of its hold
C25_Witness ==
    /\ dpc = "shown"
    /\ Len(full_s) = MaxTextLen
    /\ now_ts = HoldEnd
    /\ Len(window) = COLS

\* C26: for a text longer than COLS the window at now = base_time + hold is
\* the hold-phase window, so it equals the window of a call made just
\* before, and the windows one, two, ... step intervals later start at
\* positions 1, 2, ... of the text followed by the gap.
C26_NoJumpAtScrollStart ==
    (dpc = "shown" /\ Len(full_s) > COLS) =>
        /\ now_ts = HoldEnd =>
               /\ window = SubSeq(full_s, 1, COLS)
               /\ (prev # NoCall /\ prev.now < HoldEnd) => window = prev.window
        /\ (/\ now_ts >= HoldEnd
            /\ (now_ts - HoldEnd) % SCROLL_STEP[prog] = 0
            /\ FloorStep(now_ts) < Len(ScrollOf)) =>
               window = Rot(ScrollOf, FloorStep(now_ts))

\* a call in the last moment of the hold followed by the first call of the
\* scroll phase
C26_Witness ==
    /\ dpc = "shown"
    /\ Len(full_s) > COLS
    /\ prev # NoCall
    /\ prev.now = HoldEnd - 1
    /\ now_ts = HoldEnd
    /\ window = prev.window

(* ================ the refresh loops of the display programs =========== *)
(* One action is one iteration of the while loop of main.  A fetch (or the *)
(* reading of the metrics) takes a latency chosen by the environment; the  *)
(* other statements take no time.  The iterations in which no refresh is   *)
(* due change nothing but the clock and the window, and are taken together *)
(* up to the iteration in which the next refresh is due.                   *)

(* ---------------------------- bounds ---------------------------------- *)
StartClock == 3000000   \* time.time() when the loop is entered
MaxCycles == 2          \* refresh intervals followed after the first refresh
MaxLatency == 600       \* the longest fetch, 6 s

(* ------------------------ program constants --------------------------- *)
LOOP_SLEEP == 12        \* time.sleep(0.12)
ERROR_SLEEP == 100      \* crypto: time.sleep(1.0) after a failed fetch
NoChange == -100000     \* crypto: usd_24h_change is None

\* time between refreshes, in 0.01 s (sysmon_lcd: REFRESH_INTERVAL)
UPDATE_INTERVAL ==
    [crypto |-> 3000, sysmon_lcd |-> 200, fact |-> 9000, joke |-> 6000,
     word |-> 2160000, funpack |-> 6000, word_improved |-> 3000]

Latencies == {0, MaxLatency}

(* ------------------------- formatting --------------------------------- *)
Digit == <<"0", "1", "2", "3", "4", "5", "6", "7", "8", "9">>

\* str(n) of a natural number
RECURSIVE Str(_)
Str(n) == IF n < 10 THEN <<Digit[n + 1]>>
          ELSE Str(n \div 10) \o <<Digit[(n % 10) + 1]>>

\* the three digits of a group of thousands
Pad3(n) == <<Digit[(n \div 100) + 1], Digit[((n \div 10) % 10) + 1],
             Digit[(n % 10) + 1]>>

\* f"{n:,}" of a natural number
RECURSIVE Commas(_)
Commas(n) == IF n < 1000 THEN Str(n)
             ELSE Commas(n \div 1000) \o <<",">> \o Pad3(n % 1000)

\* f"{p:.1f}" of p given in tenths
RECURSIVE Fixed1(_)
Fixed1(c) == IF c < 0 THEN <<"-">> \o Fixed1(-c)
             ELSE Str(c \div 10) \o <<".">> \o <<Digit[(c % 10) + 1]>>

(* crypto: the price is a whole number of dollars, the change a number of  *)
(* tenths of a percent; "UP" and "DOWN" are the custom glyphs 0 and 1.     *)
fmt_price_full(num) == IF num = None THEN <<"E", "R", "R">> ELSE Commas(num)

fmt_change(pct) ==
    IF pct = NoChange THEN [arrow |-> <<>>, pct |-> <<>>]
    ELSE [arrow |-> IF pct >= 0 THEN <<"UP">> ELSE <<"DOWN">>,
          pct |-> (IF pct >= 0 THEN <<"+">> ELSE <<>>) \o Fixed1(pct) \o <<"%">>]

build_btc_full(price_raw, change_raw) ==
    LET price == fmt_price_full(price_raw)
        ch == fmt_change(change_raw)
    IN  IF ch.arrow # <<>>
        THEN <<"B", "T", "C", ":">> \o price \o <<" ">> \o ch.arrow \o ch.pct
        ELSE <<"B", "T", "C", ":">> \o price

\* sysmon_lcd: the text of the bottom row
build_bottom_string(i, r, t) ==
    LET ip_part == IF i = NoText THEN <<"I", "P", ":", "N", "o", " ", "n", "e", "t", "w", "o", "r", "k">> ELSE <<"I", "P", ":">> \o i
        root_part == IF r = None THEN <<"R", "o", "o", "t", ":", "N", "/", "A">>
                     ELSE <<"R", "o", "o", "t", ":">> \o Str(r) \o <<"%">>
        temp_part == IF t = None THEN <<"T", ":", "N", "/", "A">> ELSE <<"T", ":">> \o Str(t) \o <<"C">>
    IN  ip_part \o <<" ", "|", " ">> \o root_part \o <<" ", "|", " ">> \o temp_part

(* ------------------------- what is fetched ---------------------------- *)
Prices == {None, 999, 67123}
Changes == {NoChange, 12, -5}
Ips == {NoText, <<"1", "0", ".", "0", ".", "0", ".", "5">>, <<"1", "0", ".", "0", ".", "0", ".", "7">>}
RootPcts == {None, 41, 42}
Temps == {None, 50, 51}

\* the text shown when nothing could be fetched
Fallback ==
    [fact |-> <<"N", "o", " ", "f", "a", "c", "t", " ", "a", "v", "a", "i", "l", "a", "b", "l", "e", ".">>,
     joke |-> <<"N", "o", " ", "j", "o", "k", "e", " ", "r", "i", "g", "h", "t", " ", "n", "o", "w", ".">>,
     word |-> <<"D", "e", "f", "i", "n", "i", "t", "i", "o", "n", " ", "n", "o", "t", " ", "a", "v", "a", "i", "l", "a", "b", "l", "e", ".">>,
     funpack |-> <<"N", "o", " ", "f", "a", "c", "t", " ", "a", "v", "a", "i", "l", "a", "b", "l", "e", ".">>,
     word_improved |-> <<"D", "e", "f", "i", "n", "i", "t", "i", "o", "n", " ", "n", "o", "t", " ", "a", "v", "a", "i", "l", "a", "b", "l", "e", ".">>]

\* the text a refresh ends with: a fetched text or the fallback
Fetched(P) == {Fallback[P], Text(COLS + 1), Text(MaxTextLen)}

\* the text of the row before the first refresh
InitialText ==
    [crypto |-> <<>>, sysmon_lcd |-> NoText, fact |-> NoText, joke |-> NoText,
     word |-> NoText, funpack |-> <<"L", "o", "a", "d", "i", "n", "g", ".", ".", ".">>, word_improved |-> <<"l", "o", "a", "d", "i", "n", "g", ".", ".", ".">>]

(* --------------------------- the loops -------------------------------- *)
sysVars == <<ip, root_pct, temp_c, previous_ip, previous_root_pct>>

LoopInit ==
    /\ RotatorOff
    /\ ProgramsOff
    /\ prog \in Programs
    /\ full_s = InitialText[prog]
    /\ base_time = 0
    /\ now_ts = 0
    /\ window = <<>>
    /\ dpc = "loop"
    /\ prev = NoCall
    /\ clock = StartClock
    /\ last_fetch = 0
    /\ btc_price = None
    /\ ip = NoText
    /\ root_pct = None
    /\ temp_c = None
    /\ previous_ip = NoText
    /\ previous_root_pct = None

\* the test at the top of the loop that starts a refresh
Due ==
    \/ clock - last_fetch >= UPDATE_INTERVAL[prog]
    \/ prog \in {"fact", "joke", "word"} /\ full_s = NoText
    \/ prog = "word_improved" /\ full_s = InitialText[prog]

\* the part of the run that is followed
Followed ==
    /\ dpc = "loop"
    /\ clock <= StartClock
                + MaxCycles * (UPDATE_INTERVAL[prog] + MaxLatency + LOOP_SLEEP)

\* the row is drawn from the renderer called at time t, on the values the
\* iteration has just assigned
Draw(t) ==
    /\ now_ts' = t
    /\ window' = Call(now_ts)'

\* time.sleep at the end of an iteration whose refresh took lat
Sleep(lat, pause) == clock' = clock + lat + pause

\* crypto: the fetch fails; the row is not drawn from the renderer
crypto_main_error(lat) ==
    /\ prog = "crypto"
    /\ Followed
    /\ Due
    /\ last_fetch' = clock
    /\ Sleep(lat, ERROR_SLEEP)
    /\ UNCHANGED <<rowVars, btc_price, sysVars, rotVars, pgmVars>>

\* crypto: the fetch succeeds
crypto_main(price_raw, change_raw, lat) ==
    /\ prog = "crypto"
    /\ Followed
    /\ Due
    /\ btc_price' = price_raw
    /\ LET btc_full == build_btc_full(price_raw, change_raw) IN
           IF btc_full # full_s
           THEN /\ full_s' = btc_full
                /\ base_time' = clock
           ELSE UNCHANGED <<full_s, base_time>>
    /\ last_fetch' = clock
    /\ UNCHANGED prog
    /\ IF btc_price' = None
       THEN UNCHANGED <<now_ts, window>>
       ELSE Draw(clock + lat)
    /\ Sleep(lat, LOOP_SLEEP)
    /\ UNCHANGED <<dpc, prev, sysVars, rotVars, pgmVars>>

\* sysmon_lcd: the metrics are refreshed; a reading that fails is None
sysmon_main(ip_val, root_pct_val, temp_val, lat) ==
    /\ prog = "sysmon_lcd"
    /\ Followed
    /\ Due
    /\ root_pct' = IF root_pct_val # None THEN root_pct_val ELSE root_pct
    /\ temp_c' = IF temp_val # None THEN temp_val ELSE temp_c
    /\ ip' = ip_val
    /\ IF previous_ip = NoText /\ previous_root_pct = None
       THEN /\ base_time' = clock
            /\ previous_ip' = ip'
            /\ previous_root_pct' = root_pct'
       ELSE IF ip' # previous_ip \/ root_pct' # previous_root_pct
            THEN /\ base_time' = clock
                 /\ previous_ip' = ip'
                 /\ previous_root_pct' = root_pct'
            ELSE UNCHANGED <<base_time, previous_ip, previous_root_pct>>
    /\ last_fetch' = clock
    /\ full_s' = build_bottom_string(ip', root_pct', temp_c')
    /\ UNCHANGED prog
    /\ Draw(clock)
    /\ Sleep(lat, LOOP_SLEEP)
    /\ UNCHANGED <<dpc, prev, btc_price, rotVars, pgmVars>>

\* a refresh that leaves the base time as it is
RefreshBase_Keep(now) == base_time

\* base_time = now
RefreshBase(now) == now

\* the refresh of fact, joke, word, funpack and word_improved: the text
\* becomes t; the row is drawn at the loop's now or at time.time()
TextRefresh(P, t, lat, draw_at_now) ==
    /\ prog = P
    /\ Followed
    /\ Due
    /\ full_s' = t
    /\ base_time' = RefreshBase(clock)
    /\ last_fetch' = clock
    /\ UNCHANGED prog
    /\ Draw(IF draw_at_now THEN clock ELSE clock + lat)
    /\ Sleep(lat, LOOP_SLEEP)
    /\ UNCHANGED <<dpc, prev, btc_price, sysVars, rotVars, pgmVars>>

fact_main(t, lat) == TextRefresh("fact", t, lat, FALSE)
joke_main(t, lat) == TextRefresh("joke", t, lat, FALSE)
word_main(t, lat) == TextRefresh("word", t, lat, FALSE)
funpack_main(t, lat) == TextRefresh("funpack", t, lat, TRUE)
word_improved_main(t, lat) == TextRefresh("word_improved", t, lat, FALSE)

\* the iterations up to the one in which the next refresh is due: each
\* draws the row and sleeps
Idle ==
    /\ Followed
    /\ ~Due
    /\ UNCHANGED <<prog, full_s, base_time>>
    /\ LET left == last_fetch + UPDATE_INTERVAL[prog] - clock
           k == (left + LOOP_SLEEP - 1) \div LOOP_SLEEP
       IN  /\ clock' = clock + k * LOOP_SLEEP
           /\ IF prog = "crypto" /\ btc_price = None
              THEN UNCHANGED <<now_ts, window>>
              ELSE Draw(clock + (k - 1) * LOOP_SLEEP)
    /\ UNCHANGED <<dpc, prev, last_fetch, btc_price, sysVars, rotVars, pgmVars>>

LoopNext ==
    \/ \E lat \in Latencies : crypto_main_error(lat)
    \/ \E price_raw \in Prices, change_raw \in Changes, lat \in Latencies :
           crypto_main(price_raw, change_raw, lat)
    \/ \E ip_val \in Ips, root_pct_val \in RootPcts, temp_val \in Temps,
          lat \in Latencies : sysmon_main(ip_val, root_pct_val, temp_val, lat)
    \/ \E t \in Fetched("fact"), lat \in Latencies : fact_main(t, lat)
    \/ \E t \in Fetched("joke"), lat \in Latencies : joke_main(t, lat)
    \/ \E t \in Fetched("word"), lat \in Latencies : word_main(t, lat)
    \/ \E t \in Fetched("funpack"), lat \in Latencies : funpack_main(t, lat)
    \/ \E t \in Fetched("word_improved"), lat \in Latencies :
           word_improved_main(t, lat)
    \/ Idle

LoopSpec == LoopInit /\ [][LoopNext]_vars

(* ---------------------- claims on the refresh loops ------------------- *)
\* the step is an iteration that refreshed
Refreshed == last_fetch' # last_fetch
\* the step drew the row from the renderer
Drawn == now_ts' >= clock
\* the window of the hold phase: the leftmost COLS characters, padded
HoldWindow(t) ==
    SubSeq(t, 1, Min(COLS, Len(t))) \o Spaces(COLS - Min(COLS, Len(t)))
\* sysmon_lcd: the refresh is the first one, or reads another IP or root
\* percentage than the recorded ones
SignificantChange ==
    \/ previous_ip = NoText /\ previous_root_pct = None
    \/ ip' # previous_ip
    \/ root_pct' # previous_root_pct

C12_NoResetOnSameText ==
    [][(Refreshed /\ full_s' = full_s) => base_time' = base_time]_vars

(* ------------------- the rotation under fair scheduling --------------- *)
\* The supervisor is a running process: whenever it has a next statement
\* or a sleep to finish, it eventually does so.  Nothing is assumed of the
\* children (a child may never exit) nor of interrupts and exceptions.
Supervisor ==
    /\ \/ /\ \/ Main_Next
             \/ RunScript_Popen
             \/ RunScript_Return
             \/ Main_Poll
             \/ Main_Sleep
             \/ Stop_Entry
             \/ Stop_GracePoll
             \/ Stop_Check
             \/ Main_Settle
          /\ UNCHANGED desc
       \/ Stop_Term
       \/ Stop_Kill
    /\ UNCHANGED otherVars

FairSpec == Spec /\ WF_vars(Supervisor)

\* the supervisor was interrupted or an exception escaped its loop
Interrupted == ret # "main" \/ pc \in {"exit0", "raised"}

\* C20: unless the supervisor is interrupted or an exception escapes, every
\* slot ends and the rotation goes on to the next entry: for each n up to
\* the number of slots followed, the supervisor eventually stands before
\* slot n + 1 with the cursor advanced n times, whether the children run to
\* time-up, exit early, ignore SIGTERM or fail to launch.
C20_RotationLiveness ==
    \A n \in 1..MaxSlots : <>(Interrupted \/ (pc = "next" /\ idx = n))

\* the rotation has gone through every slot followed, the last one with a
\* child that had to be force-killed, and through every configured entry
C20_Witness ==
    /\ pc = "next"
    /\ idx = MaxSlots
    /\ slots = MaxSlots
    /\ ret = "main"
    /\ Len(normalized) = MaxEntries
    /\ \E c \in Launched : children[c].kill

\* C27: sysmon_lcd moves metrics_timer_ts only in a refresh that is the very
\* first one or that reads an IP or a root percentage other than the
\* recorded one; a refresh after the first in which both are as recorded
\* leaves it unchanged, whatever the readings are (a missing IP and a
\* missing root percentage included).
C27_TimerResetOnlyOnIpOrRoot ==
    [][prog = "sysmon_lcd" =>
          /\ base_time' # base_time =>
                 /\ Refreshed
                 /\ \/ last_fetch = 0
                    \/ ip' # previous_ip
                    \/ root_pct' # previous_root_pct
          /\ (/\ Refreshed
              /\ last_fetch # 0
              /\ ip' = previous_ip
              /\ root_pct' = previous_root_pct) => base_time' = base_time]_vars

(* ------------------- stop_process and the slot cycle ------------------ *)

\* a step of the supervisor inside stop_process (no interrupt, no child step)
StopStep == ret' = ret /\ (pc' # pc \/ polls' # polls)

\* C23: SIGKILL goes only to a group that was sent SIGTERM, and only by the
\* step after the final poll found the child still running with all
\* GracePolls grace polls used and no exit seen; a grace poll that sees the
\* exit ends the grace wait at once, and stop_process then returns without
\* SIGKILL.
C23_SignalOrdering ==
    [][/\ \A c \in Launched :
              (c \in DOMAIN children' /\ children'[c].kill /\ ~children[c].kill) =>
                  /\ c = p
                  /\ pc = "sp_kill"
                  /\ children[c].term
                  /\ polls = GracePolls
                  /\ ~returncode
       /\ (pc = "sp_check" /\ pc' = "sp_kill") => Running(p)
       /\ (pc = "sp_wait" /\ ~PollIsNone(p) /\ StopStep) =>
              /\ pc' = "sp_check"
              /\ polls' = polls
              /\ returncode'
       /\ (pc = "sp_check" /\ returncode /\ StopStep) =>
              /\ pc' \in {"settle", "exit0", "raised"}
              /\ children' = children]_vars

\* the child of a slot whose time was up exited during the grace wait: it
\* was reaped by a grace poll and stop_process returned without SIGKILL
C23_Witness ==
    /\ pc = "settle"
    /\ how = "timeup"
    /\ SlotChild \in stopCalled
    /\ SlotChild \notin Launched

\* C24: a slot goes launch, wait, stop, settle pause, cursor advance: the
\* next slot is begun only by the step that ends a settle pause and advances
\* the cursor by one; a settle pause of SLEEP_AFTER_STOP is begun only by
\* the return of stop_process to main, runs down uninterrupted, and the
\* tracked handle is None from that return until the next launch.
C24_SlotStepOrder ==
    [][/\ (pc' = "next" /\ pc # "next") =>
              /\ pc = "settle"
              /\ sleepLeft = 1
              /\ idx' = idx + 1
              /\ current_proc = None
       /\ (pc' = "settle" /\ pc # "settle") =>
              /\ pc \in StopPcs
              /\ ret = "main"
              /\ sleepLeft' = SLEEP_AFTER_STOP
              /\ current_proc' = None
              /\ idx' = idx
       /\ (pc = "settle" /\ pc' = "settle") =>
              /\ sleepLeft' \in {sleepLeft, sleepLeft - 1}
              /\ current_proc' = None
              /\ idx' = idx
       /\ (pc' \in {"rs_popen", "rs_created"} /\ pc \notin {"rs_popen", "rs_created"}) =>
              /\ pc = "next"
              /\ current_proc = None
              /\ idx = slots
       /\ (pc' \in StopPcs /\ pc \notin StopPcs /\ ret' = "main") => pc = "loop"
       /\ (pc' = "loop" /\ pc \notin {"loop", "sleep"}) =>
              pc \in {"next", "rs_popen", "rs_created"}]_vars

\* the second slot is about to begin: the first was launched, stopped when its
\* time was up, the settle pause has run down and the cursor is at 1
C24_Witness ==
    /\ pc = "next"
    /\ slots = 1
    /\ idx = 1
    /\ 0 \in stopCalled
    /\ current_proc = None
    /\ sleepLeft = 0

(* ----------------------- the whole process group ---------------------- *)

\* the process groups of earlier slots
EarlierGroups == (0..MaxSlots) \ {local}

\* C22: when the child of the next slot has just been launched, no process
\* of an earlier slot's group is running, neither the child the supervisor
\* launched nor a descendant in its group.
C22_WholeGroupStopped ==
    pc = "rs_created" =>
        \A c \in EarlierGroups :
            /\ ~Running(c)
            /\ c \notin DOMAIN desc

(* ========================= normalize_scripts ========================== *)
\* A configured entry is [k, items]: k is the Python type of the entry ("str",
\* "list", "tuple" or "other" for anything else) and items its elements (for
\* a string: the string itself).  An element is [t, n, s]: t the Python type
\* ("str", "int", "float", "bool", "none"; "inf" and "nan" for the floats
\* that are not finite), s the text of a string, n the value of a number:
\* an int or bool as it is, a float in tenths.

DEFAULT_DURATION == 300

PyStr(x) == [t |-> "str", n |-> 0, s |-> x]
PyInt(k) == [t |-> "int", n |-> k, s |-> ""]
PyFloat(tenths) == [t |-> "float", n |-> tenths, s |-> ""]
PyOther(ty) == [t |-> ty, n |-> 0, s |-> ""]
PyTrue == [t |-> "bool", n |-> 1, s |-> ""]

\* isinstance(v, (int, float)): bool is a subclass of int
IsNumber(v) == v.t \in {"int", "float", "bool", "inf", "nan"}

\* int() rounding a float to the nearest whole number
py_int_Round(v) ==
    IF v.t = "float" THEN (IF v.n >= 0 THEN (v.n + 5) \div 10
                                       ELSE -((5 - v.n) \div 10))
    ELSE v.n

\* int(dur) for a finite number: a float is truncated towards zero
py_int(v) == IF v.t = "float" THEN IntOf(v.n, 10) ELSE v.n

\* int(float('inf')) raises OverflowError, int(float('nan')) ValueError
IntRaises(v) == v.t \in {"inf", "nan"}

\* dur = entry[1] if len(entry) > 1 and isinstance(entry[1], (int, float))
\*       else DEFAULT_DURATION
DurOf(e) ==
    IF Len(e.items) > 1 /\ IsNumber(e.items[2])
    THEN e.items[2] ELSE PyInt(DEFAULT_DURATION)

\* the body of the for loop for one entry: what is appended to out
Appended(e) ==
    IF e.k = "str"
    THEN <<[path |-> e.items[1].s, duration |-> DEFAULT_DURATION]>>
    ELSE IF e.k \in {"list", "tuple"} /\ Len(e.items) >= 1
    THEN <<[path |-> e.items[1].s, duration |-> py_int(DurOf(e))]>>
    ELSE <<>>

\* the body of the for loop raises for this entry
EntryRaises(e) ==
    /\ e.k \in {"list", "tuple"}
    /\ Len(e.items) >= 1
    /\ IntRaises(DurOf(e))

RECURSIVE normalize_scripts(_)
\* the list returned, entry by entry
normalize_scripts(ss) ==
    IF ss = <<>> THEN <<>>
    ELSE Appended(Head(ss)) \o normalize_scripts(Tail(ss))

\* normalize_scripts(ss) raises instead of returning
NormalizeRaises(ss) == \E i \in 1..Len(ss) : EntryRaises(ss[i])

\* the entries configured: bare strings, pairs with every kind of duration,
\* a tuple without duration, one with a third element, a list, and the
\* entries the function skips
Paths == {"a.py", "b.py"}
DurationValues ==
    {PyInt(0), PyInt(180), PyFloat(25), PyFloat(9), PyFloat(-25),
     PyFloat(1800), PyTrue, PyStr("60"), PyOther("none"), PyOther("inf"),
     PyOther("nan")}
ConfigEntries ==
    {[k |-> "str", items |-> <<PyStr(x)>>] : x \in Paths}
    \cup {[k |-> "tuple", items |-> <<PyStr("a.py"), d>>] : d \in DurationValues}
    \cup {[k |-> "tuple", items |-> <<PyStr("b.py")>>],
          [k |-> "tuple", items |-> <<PyStr("b.py"), PyInt(60), PyInt(5)>>],
          [k |-> "list", items |-> <<PyStr("b.py"), PyInt(60)>>],
          [k |-> "list", items |-> <<>>],
          [k |-> "tuple", items |-> <<>>],
          [k |-> "other", items |-> <<>>]}
ScriptLists == UNION {[1..n -> ConfigEntries] : n \in 0..MaxEntries}

\* the process at the first statement of main
NormInit ==
    /\ scripts \in ScriptLists
    /\ normalized = <<>>
    /\ idx = 0
    /\ current_proc = None
    /\ path = ""
    /\ duration = 0
    /\ elapsed = 0
    /\ pc = "start"
    /\ ret = "main"
    /\ p = None
    /\ local = None
    /\ polls = 0
    /\ sleepLeft = 0
    /\ returncode = FALSE
    /\ children = <<>>
    /\ how = "none"
    /\ slots = 0
    /\ exitedAt = None
    /\ stopCalled = {}
    /\ activeAtInt = {}
    /\ desc = <<>>
    /\ DisplayOff
    /\ ProgramsOff

\* main without its test for an empty list
Main_Normalize_NoExit ==
    /\ pc = "start"
    /\ IF NormalizeRaises(scripts)
       THEN /\ pc' = "raised"
            /\ UNCHANGED normalized
       ELSE /\ normalized' = normalize_scripts(scripts)
            /\ pc' = "next"
    /\ UNCHANGED <<idx, current_proc, path, duration, elapsed, ret, p, local,
                   polls, sleepLeft, returncode, children, how, slots,
                   exitedAt, stopCalled, activeAtInt, desc, otherVars>>

\* normalized = normalize_scripts(SCRIPTS); if not normalized: sys.exit(1);
\* idx = 0; current_proc = None
Main_Normalize ==
    /\ pc = "start"
    /\ IF NormalizeRaises(scripts)
       THEN /\ pc' = "raised"
            /\ UNCHANGED normalized
       ELSE /\ normalized' = normalize_scripts(scripts)
            /\ pc' = IF normalized' = <<>> THEN "exit1" ELSE "next"
    /\ UNCHANGED <<idx, current_proc, path, duration, elapsed, ret, p, local,
                   polls, sleepLeft, returncode, children, how, slots,
                   exitedAt, stopCalled, activeAtInt, desc, otherVars>>

NormNext == Main_Normalize

NormSpec == NormInit /\ [][NormNext]_vars

\* an entry the claim calls valid: a string or a non-empty list or tuple
ValidEntry(e) == e.k = "str" \/ (e.k \in {"list", "tuple"} /\ e.items # <<>>)
\* the number of valid entries among the first i
Rank(i) == Cardinality({j \in 1..i : ValidEntry(scripts[j])})
\* the entry has a numeric duration
HasNumber(e) ==
    e.k \in {"list", "tuple"} /\ Len(e.items) > 1 /\ IsNumber(e.items[2])
\* the configured duration of the entry in tenths of a second
ConfiguredTenths(e) ==
    IF e.items[2].t = "float" THEN e.items[2].n ELSE 10 * e.items[2].n
\* the whole seconds in a duration of x tenths, counted towards zero
WholeSeconds(x) ==
    CHOOSE q \in -DEFAULT_DURATION..DEFAULT_DURATION :
        /\ 10 * (IF q >= 0 THEN q ELSE -q) <= (IF x >= 0 THEN x ELSE -x)
        /\ (IF x >= 0 THEN x ELSE -x) < 10 * ((IF q >= 0 THEN q ELSE -q) + 1)
        /\ (q > 0 => x > 0) /\ (q < 0 => x < 0)
\* the result holds one pair per valid entry, in the order of the entries,
\* with the path of the entry
OnePairPerValidEntry ==
    /\ Len(normalized) = Rank(Len(scripts))
    /\ \A i \in 1..Len(scripts) :
           ValidEntry(scripts[i]) =>
               normalized[Rank(i)].path = scripts[i].items[1].s

\* C21 as stated: normalize_scripts returns one pair per valid entry in
\* configuration order; a pair with a numeric duration keeps the configured
\* number of seconds, every other valid entry gets DEFAULT_DURATION.
C21_KeepsConfiguredSeconds ==
    pc # "start" =>
        /\ pc # "raised"
        /\ OnePairPerValidEntry
        /\ \A i \in 1..Len(scripts) :
               ValidEntry(scripts[i]) =>
                   10 * normalized[Rank(i)].duration =
                       IF HasNumber(scripts[i])
                       THEN ConfiguredTenths(scripts[i])
                       ELSE 10 * DEFAULT_DURATION

\* C21 amended: normalize_scripts raises exactly when a pair has a duration
\* that is a float without a finite value; otherwise it returns one pair per
\* valid entry in configuration order, where an int duration is kept, a
\* bool counts as the int 1 or 0, a float is cut to its whole seconds
\* (towards zero), and a bare string or a pair with a missing or
\* non-numeric duration gets DEFAULT_DURATION.
C21_WholeSecondsKept ==
    pc # "start" =>
        IF \E i \in 1..Len(scripts) :
               HasNumber(scripts[i]) /\ scripts[i].items[2].t \in {"inf", "nan"}
        THEN pc = "raised"
        ELSE /\ pc # "raised"
             /\ OnePairPerValidEntry
             /\ \A i \in 1..Len(scripts) :
                    ValidEntry(scripts[i]) =>
                        normalized[Rank(i)].duration =
                            IF HasNumber(scripts[i])
                            THEN WholeSeconds(ConfiguredTenths(scripts[i]))
                            ELSE DEFAULT_DURATION

\* a skipped entry followed by a pair of 2.5 s, normalised to one pair of 2 s
C21_Witness ==
    /\ pc = "next"
    /\ Len(scripts) = 2
    /\ ~ValidEntry(scripts[1])
    /\ HasNumber(scripts[2])
    /\ scripts[2].items[2] = PyFloat(25)
    /\ normalized = <<[path |-> "a.py", duration |-> 2]>>

\* C38: when normalize_scripts returns without a valid entry, main exits
\* with status 1 with no child launched and no slot begun; the top of the
\* rotation loop, where normalized[idx % len(normalized)] is evaluated, is
\* reached only with a list that is not empty.
C38_EmptyConfigExits ==
    /\ (pc \notin {"start", "raised"} /\ Rank(Len(scripts)) = 0) =>
           /\ pc = "exit1"
           /\ normalized = <<>>
           /\ children = <<>>
           /\ slots = 0
           /\ current_proc = None
    /\ pc = "next" => Len(normalized) > 0
    /\ pc = "exit1" => Rank(Len(scripts)) = 0

\* SCRIPTS holds two entries and both are skipped
C38_Witness ==
    /\ pc = "exit1"
    /\ Len(scripts) = 2
    /\ normalized = <<>>

(* ============================= time_quote ============================= *)
\* Times are in hundredths of a second.  One iteration of the loop takes
\* LOOP_SLEEP: the sleep is exact and the other statements take no time, so
\* every time.monotonic() of an iteration reads the same value.  The top
\* row (date and time) is not modelled.

MaxQuoteLen == 44    \* longest quote configured
MaxShown == 2        \* quotes replaced before the model stops

QUOTE_INTERVAL == 1500
SCROLL_STEP_DELAY == 30
QUOTE_LOOP_SLEEP == 18
POST_SCROLL_PAUSE == 100
QUOTE_GAP == <<" ", " ", " ">>
\* tries < 6
CHOOSE_TRIES == 6

\* a short quote, a quote as long as the longest in the file, a longer one
QUOTES == <<Text(10), Text(20), Text(MaxQuoteLen)>>
QuoteSet == {QUOTES[i] : i \in 1..Len(QUOTES)}
\* the results of the calls of random.choice(QUOTES) one call of
\* choose_quote can make
Draws == [1..(CHOOSE_TRIES + 1) -> QuoteSet]

\* s[:width].center(width)
center_text(s, width) ==
    LET t == Slice(s, 0, width)
        pad == width - Len(t)
        left == (pad \div 2) + (IF pad % 2 = 1 /\ width % 2 = 1 THEN 1 ELSE 0)
    IN  [i \in 1..left |-> " "] \o t \o [i \in 1..(pad - left) |-> " "]

\* the window of width characters at start, over the quote and its gap
left_window(s, start, width) ==
    IF Len(s) <= width THEN ljust(s, width)
    ELSE LET scroll == s \o QUOTE_GAP
         IN  Slice(scroll \o scroll, start, start + width)

RECURSIVE Retry(_, _, _, _)
\* while q == prev_quote and tries < 6: q = random.choice(QUOTES); tries += 1
Retry(q, prev_q, draws, tries) ==
    IF q = prev_q /\ tries < CHOOSE_TRIES
    THEN Retry(draws[tries + 2], prev_q, draws, tries + 1)
    ELSE q

\* choose_quote(prev_quote) when the calls of random.choice return draws
choose_quote(prev_q, draws) ==
    IF prev_q # NoText /\ prev_q # <<>> /\ Len(QUOTES) > 1
    THEN Retry(draws[1], prev_q, draws, 0)
    ELSE draws[1]

compute_display_duration(quote) ==
    IF Len(quote) <= COLS THEN QUOTE_INTERVAL
    ELSE LET total_scroll_len == Len(quote) + 3
             d == total_scroll_len * SCROLL_STEP_DELAY + POST_SCROLL_PAUSE
         IN  IF d >= QUOTE_INTERVAL THEN d ELSE QUOTE_INTERVAL

\* main before its loop
QuoteInit ==
    /\ RotatorOff
    /\ LoopOff
    /\ FunpackOff
    /\ ExtOff
    /\ prog = "time_quote"
    /\ full_s = <<>>
    /\ base_time = 0
    /\ now_ts = 0
    /\ window = <<>>
    /\ dpc = "loop"
    /\ prev = NoCall
    /\ mono = 0
    /\ \E draws \in Draws : current_quote = choose_quote(NoText, draws)
    /\ quote_selected_time = 0
    /\ quote_display_duration = compute_display_duration(current_quote)
    /\ scroll_index = 0
    /\ scroll_required = (Len(current_quote) > COLS)
    /\ scroll_last_step = 0
    /\ prev_quote = NoText
    /\ max_index = 0
    /\ shown = 0

\* the scroll step is due in this iteration
StepDue == scroll_required /\ mono - scroll_last_step >= SCROLL_STEP_DELAY
\* scroll_index as the bottom row is drawn in this iteration
DrawnIndex == IF StepDue THEN scroll_index + 1 ELSE scroll_index
\* the current quote has been displayed long enough
QuoteOver == mono - quote_selected_time >= quote_display_duration

\* one iteration of the loop of main, with its time.sleep(LOOP_SLEEP)
QuoteLoop ==
    /\ prog = "time_quote"
    /\ shown < MaxShown
    /\ window' = IF scroll_required
                 THEN left_window(current_quote, DrawnIndex, COLS)
                 ELSE center_text(current_quote, COLS)
    /\ IF QuoteOver
       THEN /\ \E draws \in Draws :
                   current_quote' = choose_quote(current_quote, draws)
            /\ prev_quote' = current_quote
            /\ quote_selected_time' = mono
            /\ scroll_index' = 0
            /\ scroll_required' = (Len(current_quote') > COLS)
            /\ scroll_last_step' = mono
            /\ quote_display_duration' =
                   compute_display_duration(current_quote')
            /\ shown' = shown + 1
            /\ max_index' = 0
       ELSE /\ scroll_index' =
                   IF scroll_required /\ DrawnIndex >= Len(current_quote) + 3
                   THEN 0 ELSE DrawnIndex
            /\ scroll_last_step' = IF StepDue THEN mono ELSE scroll_last_step
            /\ max_index' = IF DrawnIndex > max_index
                            THEN DrawnIndex ELSE max_index
            /\ UNCHANGED <<current_quote, prev_quote, quote_selected_time,
                           scroll_required, quote_display_duration, shown>>
    /\ mono' = mono + QUOTE_LOOP_SLEEP
    /\ UNCHANGED <<rotVars, loopVars, fpVars, extVars, prog, full_s,
                   base_time, now_ts, dpc, prev>>

QuoteNext == QuoteLoop

QuoteSpec == QuoteInit /\ [][QuoteNext]_vars

\* the quote is replaced in this step
Replaced == shown' = shown + 1
\* the highest scroll_index the current quote has been drawn at, this
\* iteration included
Scrolled == IF DrawnIndex > max_index THEN DrawnIndex ELSE max_index

\* C28: a quote longer than COLS is replaced only after its scroll has gone
\* through all its positions: it has been drawn at scroll_index
\* len(quote) + 2, the last position before the scroll is back at its start.
C28_FullScrollBeforeReplace ==
    [][(Replaced /\ Len(current_quote) > COLS) =>
           Scrolled >= Len(current_quote) + 2]_vars

\* C29: the quote chosen to replace the current one is another quote.
C29_NeverSameQuoteTwice ==
    [][Replaced => current_quote' # current_quote]_vars

(* ======================= funpack: the category ======================== *)

MaxRefreshes == 3    \* calls of choose_and_fetch followed

\* CATEGORY_WEIGHTS in the order of the dict, the weights in hundredths
CATEGORY_WEIGHTS == <<[cat |-> "word", w |-> 60],
                      [cat |-> "fact", w |-> 25],
                      [cat |-> "joke", w |-> 15]>>
Categories == {CATEGORY_WEIGHTS[i].cat : i \in 1..Len(CATEGORY_WEIGHTS)}
\* random.random() in hundredths: 0.00 .. 0.99
Randoms == 0..99

RECURSIVE SumW(_)
SumW(items) == IF items = <<>> THEN 0 ELSE Head(items).w + SumW(Tail(items))

RECURSIVE Pick(_, _, _)
\* for cat, w in items: if upto + w >= r: return cat; upto += w
\* and after the loop: return items[-1][0]     (r in ten-thousandths)
Pick(items, upto, r) ==
    IF 100 * (upto + Head(items).w) >= r \/ Len(items) = 1
    THEN Head(items).cat
    ELSE Pick(Tail(items), upto + Head(items).w, r)

\* weighted_choice(exclude) when random.random() returns u
weighted_choice(exclude, u) ==
    LET Kept(it) == it.cat # exclude
        items == SelectSeq(CATEGORY_WEIGHTS, Kept)
    IN  Pick(items, 0, u * SumW(items))

\* the words fetch_word_and_definition returns, and w.upper()
Words == {"zen", "aurora"}
upper(w) == IF w = "zen" THEN "ZEN" ELSE "AURORA"

\* read_last_choice(): the content of the file, None if it cannot be read
read_last_choice(readable) ==
    IF readable THEN last_choice_file ELSE "none"

\* the category of the content a header announces
CategoryOf(h) ==
    IF h = "FACT" THEN "fact" ELSE IF h = "JOKE" THEN "joke" ELSE "word"

\* main before its loop; the file is as an earlier run left it
FunInit ==
    /\ RotatorOff
    /\ LoopOff
    /\ QuoteOff
    /\ ExtOff
    /\ prog = "funpack"
    /\ full_s = <<>>
    /\ base_time = 0
    /\ now_ts = 0
    /\ window = <<>>
    /\ dpc = "loop"
    /\ prev = NoCall
    /\ last_choice_file \in Categories \cup {"none"}
    /\ choice = "none"
    /\ header = "FUN"
    /\ content = "Loading..."
    /\ prev_header = "none"
    /\ refreshes = 0

\* header, content = choose_and_fetch(): fetch_word_and_definition always
\* returns a word; fetch_fact and fetch_joke return a text or None
choose_and_fetch(u, readable, writable, word, fact_ok, joke_ok) ==
    /\ refreshes < MaxRefreshes
    /\ choice' = weighted_choice(read_last_choice(readable), u)
    /\ last_choice_file' = IF writable THEN choice' ELSE last_choice_file
    /\ IF choice' = "word"
       THEN /\ header' = upper(word)
            /\ content' = "definition"
       ELSE IF choice' = "fact"
       THEN IF fact_ok
            THEN header' = "FACT" /\ content' = "fact"
            ELSE /\ header' = "JOKE"
                 /\ content' = IF joke_ok THEN "joke" ELSE "No joke available."
       ELSE IF joke_ok
            THEN header' = "JOKE" /\ content' = "joke"
            ELSE /\ header' = "FACT"
                 /\ content' = IF fact_ok THEN "fact" ELSE "No fact available."
    /\ prev_header' = header
    /\ refreshes' = refreshes + 1
    /\ UNCHANGED <<rotVars, dispVars, tqVars, extVars>>

FunNext ==
    \E u \in Randoms, readable, writable, fact_ok, joke_ok \in BOOLEAN,
       word \in Words :
        choose_and_fetch(u, readable, writable, word, fact_ok, joke_ok)

FunSpec == FunInit /\ [][FunNext]_vars

\* C30: the contents shown by two consecutive refreshes are of different
\* categories (word, fact or joke).
C30_NoCategoryTwice ==
    refreshes >= 2 => CategoryOf(header) # CategoryOf(prev_header)

(* ============ funpack, word_improved: the fallback words ============== *)
(* FALLBACK_WORDS is shortened to three entries per program.  The list of  *)
(* funpack.py names some words more than once ("sonder" in lines 38, 39    *)
(* and again in 39), the list of word_improved.py names each word once.    *)
(* Each program has its own index file; "Zenith" stands for a word an API  *)
(* returns in another case than the list has it.                           *)

MaxCalls == 4    \* calls of get_next_fallback_word followed

FALLBACK_WORDS ==
    [funpack |-> <<"sonder", "halcyon", "sonder">>,
     word_improved |-> <<"zenith", "zephyr", "zealous">>]

WordPrograms == DOMAIN FALLBACK_WORDS

\* set(order)
SetOf(order) == {order[i] : i \in 1..Len(order)}

\* the orders random.shuffle can leave FALLBACK_WORDS[:] in
Shuffles(P) ==
    LET ws == FALLBACK_WORDS[P]
    IN  {[i \in 1..Len(ws) |-> ws[f[i]]] : f \in Permutations(1..Len(ws))}

\* write_word_index(order, i): an error is swallowed and the file stays
write_word_index(f, order, i, writable) ==
    IF writable THEN [order |-> order, idx |-> i] ELSE f

\* read_word_index() on the file f: the order and index read, and the file
\* afterwards; an unreadable or foreign file is replaced by a new shuffle
read_word_index(P, f, readable, writable, sh) ==
    IF readable /\ f # NoIndex /\ SetOf(f.order) = SetOf(FALLBACK_WORDS[P])
    THEN [order |-> f.order, idx |-> f.idx, file |-> f]
    ELSE [order |-> sh, idx |-> 0, file |-> write_word_index(f, sh, 0, writable)]

\* get_next_fallback_word() on the file f: the word and the file afterwards
get_next_fallback_word(P, f, readable, writable, sh) ==
    LET r == read_word_index(P, f, readable, writable, sh)
        over == r.idx >= Len(r.order)
        order == IF over THEN sh ELSE r.order
        i == IF over THEN 0 ELSE r.idx
    IN  [w |-> order[i + 1],
         file |-> write_word_index(r.file, order, i + 1, writable)]

\* the words the APIs return ("" for None: no key, no answer, no definition)
ApiWords == {"", "Zenith", "quark"}
lower(w) == IF w = "Zenith" THEN "zenith" ELSE w

\* read_last_word(): the content of the file, None when it cannot be read
read_last_word(readable) == IF readable THEN last_word_file ELSE ""

\* choose_word(): wn is the Wordnik word that also has a definition, rw the
\* word of the random-word API that also has one; the words drawn from the
\* fallback queue and the index file afterwards
choose_word(wn, rw, last_readable, readable, writable, sh1, sh2) ==
    LET last == read_last_word(last_readable)
        g1 == get_next_fallback_word("word_improved", word_index_file,
                                     readable, writable, sh1)
        g2 == get_next_fallback_word("word_improved", g1.file,
                                     readable, writable, sh2)
    IN  IF wn # "" /\ lower(wn) # lower(last)
        THEN [w |-> wn, drawn |-> <<>>, file |-> word_index_file]
        ELSE IF rw # "" /\ lower(rw) # lower(last)
        THEN [w |-> rw, drawn |-> <<>>, file |-> word_index_file]
        ELSE IF lower(g1.w) = lower(last)
        THEN [w |-> g2.w, drawn |-> <<g1.w, g2.w>>, file |-> g2.file]
        ELSE [w |-> g1.w, drawn |-> <<g1.w>>, file |-> g1.file]

\* before the first refresh of the first run: no index file yet; the last
\* word is what an earlier run of word_improved left
WordInit ==
    /\ RotatorOff
    /\ LoopOff
    /\ QuoteOff
    /\ FunpackOff
    /\ LineOff
    /\ PriceOff
    /\ MarkerOff
    /\ prog \in WordPrograms
    /\ full_s = <<>>
    /\ base_time = 0
    /\ now_ts = 0
    /\ window = <<>>
    /\ dpc = "loop"
    /\ prev = NoCall
    /\ word_index_file = NoIndex
    /\ returned = <<>>
    /\ last_word_file \in IF prog = "word_improved"
                          THEN {""} \cup SetOf(FALLBACK_WORDS[prog]) ELSE {""}
    /\ chosen = ""

wordFrame == <<rotVars, dispVars, tqVars, fpVars, lnVars, pxVars, mkVars>>

\* funpack: fetch_word_and_definition() when Wordnik gave no word
fetch_word_and_definition(readable, writable, sh) ==
    /\ prog = "funpack"
    /\ Len(returned) < MaxCalls
    /\ LET g == get_next_fallback_word("funpack", word_index_file, readable,
                                       writable, sh)
       IN  /\ chosen' = g.w
           /\ returned' = Append(returned, g.w)
           /\ word_index_file' = g.file
    /\ UNCHANGED <<last_word_file, wordFrame>>

\* word_improved main: w, d = choose_word(); write_last_word(w)
\* (lr, lw: the last-word file can be read, written)
main_choose_word(wn, rw, lr, lw, readable, writable, sh1, sh2) ==
    /\ prog = "word_improved"
    /\ Len(returned) + 2 <= MaxCalls
    /\ LET c == choose_word(wn, rw, lr, readable, writable, sh1, sh2)
       IN  /\ chosen' = c.w
           /\ returned' = returned \o c.drawn
           /\ word_index_file' = c.file
           /\ last_word_file' = IF lw THEN c.w ELSE last_word_file
    /\ UNCHANGED wordFrame

WordNext ==
    \/ \E readable, writable \in BOOLEAN, sh \in Shuffles("funpack") :
           fetch_word_and_definition(readable, writable, sh)
    \/ \E wn, rw \in ApiWords,
          last_readable, last_writable, readable, writable \in BOOLEAN,
          sh1, sh2 \in Shuffles("word_improved") :
           main_choose_word(wn, rw, last_readable, last_writable, readable,
                            writable, sh1, sh2)

WordSpec == WordInit /\ [][WordNext]_vars

\* the i-th and the j-th word returned belong to the same pass of the queue
SamePass(i, j) ==
    (i - 1) \div Len(FALLBACK_WORDS[prog]) = (j - 1) \div Len(FALLBACK_WORDS[prog])

\* C31: counting from the first call, no word is returned a second time
\* before every entry of FALLBACK_WORDS has been returned once, and the
\* index in the index file is the number of words returned in the current
\* pass, so that each call has advanced it by one.
C31_NoRepeatUntilExhausted ==
    /\ \A i, j \in 1..Len(returned) :
           (i < j /\ SamePass(i, j)) => returned[i] # returned[j]
    /\ returned # <<>> =>
           word_index_file.idx
               = ((Len(returned) - 1) % Len(FALLBACK_WORDS[prog])) + 1

\* C32: the word choose_word returns differs, case ignored, from the word
\* the last-word file held when it was called.
C32_NeverLastWord ==
    [][prog = "word_improved" => lower(chosen') # lower(last_word_file)]_vars

(* ============== the price programs: the lines they write ============== *)
(* A price is a number of hundredths (crypto: of whole dollars, as in      *)
(* fmt_price_full); "rs1", "rs2", "rs3" are the three characters dollar.py *)
(* writes before the amount.                                               *)

\* the texts "ERR", "USD", "AED", "GOLD", "SILV"
ERR == <<"E", "R", "R">>
USD == <<"U", "S", "D">>
AED == <<"A", "E", "D">>
GOLD == <<"G", "O", "L", "D">>
SILV == <<"S", "I", "L", "V">>

PricePrograms == {"dollar", "gold", "gold_noapi"}
LinePrograms == PricePrograms \cup {"crypto"}

\* round(x) of x given in hundredths: the nearest whole number, ties to even
round(c) ==
    LET n == c \div 100
        r == c % 100
    IN  IF r > 50 \/ (r = 50 /\ n % 2 = 1) THEN n + 1 ELSE n

\* dollar: fmt_money(x)
fmt_money(x) ==
    IF x = None THEN ERR
    ELSE IF x % 100 = 0 THEN Commas(x \div 100)
    ELSE Commas(x \div 100) \o <<".">>
             \o <<Digit[((x \div 10) % 10) + 1], Digit[(x % 10) + 1]>>

\* gold, gold_noapi: fmt_int_no_commas(n)
fmt_int_no_commas(n) == Str(round(n))

\* dollar: build_line(label, val, cached)
build_line(lab, v, c) ==
    IF v = None
    THEN ljust(Slice(<<"1", " ">> \o lab \o <<" ", "=", " ">> \o ERR, 0, COLS),
               COLS)
    ELSE LET s == <<"1", " ">> \o lab \o <<" ", "=", " ", "rs1", "rs2", "rs3">>
                      \o fmt_money(v)
             t == IF ~c THEN s
                  ELSE IF Len(s) >= COLS
                  THEN Slice(s, 0, COLS - 1) \o <<"C">>
                  ELSE Slice(s, 0, COLS - 1) \o <<" ">> \o <<"C">>
         IN  ljust(Slice(t, 0, COLS), COLS)

\* gold, gold_noapi: the text fmt starts from, cut to COLS characters
fmt_text(lab, v) ==
    LET s == lab \o <<"1", "0", "g", " ", "R", "s">>
                 \o (IF v = None THEN ERR ELSE fmt_int_no_commas(v))
    IN  IF Len(s) > COLS THEN Slice(s, 0, COLS) ELSE s

\* gold: fmt(label, val) of build_lines(gold_10g, silver_10g, cached)
gold_fmt(lab, v, c) ==
    LET s == fmt_text(lab, v)
        t == IF ~c THEN s
             ELSE IF Len(s) >= COLS
             THEN Slice(s, 0, COLS - 1) \o <<"C">>
             ELSE Slice(s \o Spaces(COLS - Len(s) - 1), 0, COLS - 1) \o <<"C">>
    IN  ljust(t, COLS)

\* gold_noapi: fmt(label, val) of build_lines(gold_10g, silver_10g, cached)
gold_noapi_fmt(lab, v, c) ==
    LET s == fmt_text(lab, v)
        t == IF ~c THEN s
             ELSE IF Len(s) >= COLS
             THEN Slice(s, 0, COLS - 1) \o <<"C">>
             ELSE Slice(s, 0, COLS - 1) \o <<" ">> \o <<"C">>
    IN  ljust(t, COLS)

\* crypto: build_eth_line(price_raw, change_raw, show_star)
build_eth_line(price_raw, change_raw, show_star) ==
    LET base == <<"E", "T", "H", ":">> \o fmt_price_full(price_raw)
        ch == fmt_change(change_raw)
        candidate == base \o <<" ">> \o ch.arrow \o ch.pct
        s == IF ch.arrow # <<>> /\ Len(candidate) <= 16 THEN candidate ELSE base
        t == ljust(Slice(s, 0, 16), 16)
    IN  IF show_star THEN Slice(t, 0, 15) \o <<"*">> ELSE t

\* the line of program P for a label, a value and the cached flag
LineOf(P, lab, v, ch, c) ==
    CASE P = "dollar" -> build_line(lab, v, c)
      [] P = "gold" -> gold_fmt(lab, v, c)
      [] P = "gold_noapi" -> gold_noapi_fmt(lab, v, c)
      [] OTHER -> build_eth_line(v, ch, c)

\* the labels and the values the lines are built for
Labels(P) ==
    CASE P = "dollar" -> {USD, AED}
      [] P = "crypto" -> {<<>>}
      [] OTHER -> {GOLD, SILV}
Values(P) ==
    CASE P = "dollar" -> {None, 8300, 8345, 834, 2261, 12345678}
      [] P = "crypto" -> {None, 999, 3456, 67123, 123456789}
      [] OTHER -> {None, 99900, 143250, 7212345, 12345678, 123456789}

\* a call of a line builder with arguments of the program's kind
LineInit ==
    /\ RotatorOff
    /\ LoopOff
    /\ QuoteOff
    /\ FunpackOff
    /\ WordOff
    /\ PriceOff
    /\ MarkerOff
    /\ prog \in LinePrograms
    /\ full_s = <<>>
    /\ base_time = 0
    /\ now_ts = 0
    /\ window = <<>>
    /\ dpc = "call"
    /\ prev = NoCall
    /\ label \in Labels(prog)
    /\ val \in Values(prog)
    /\ change \in IF prog = "crypto" THEN Changes ELSE {NoChange}
    /\ cached \in BOOLEAN
    /\ line = <<>>

\* the builder of program P returns
BuildLine(P) ==
    /\ prog = P
    /\ dpc = "call"
    /\ line' = LineOf(P, label, val, change, cached)
    /\ dpc' = "done"
    /\ UNCHANGED <<rotVars, loopVars, tqVars, fpVars, wdVars, pxVars, mkVars,
                   prog, full_s, base_time, now_ts, window, prev, label, val,
                   change, cached>>

LineNext ==
    \/ BuildLine("dollar")
    \/ BuildLine("gold")
    \/ BuildLine("gold_noapi")
    \/ BuildLine("crypto")

LineSpec == LineInit /\ [][LineNext]_vars

\* C35: a line built with cached = True by dollar.build_line or by the
\* build_lines of gold and gold_noapi has 'C' in column COLS.
C35_CachedMarkerLastColumn ==
    (dpc = "done" /\ prog \in PricePrograms /\ cached) =>
        /\ Len(line) >= COLS
        /\ line[COLS] = "C"

\* C36: every line built by a price program is exactly COLS characters long.
C36_LineWidth == dpc = "done" => Len(line) = COLS

(* ================ the price programs: cache fallback ================== *)
(* One step is one iteration of main.  What the requests of the iteration  *)
(* yield is r: r.ok says that the requests succeeded (dollar: rates is a   *)
(* non-empty dict; gold_noapi: both spot prices and rates), r.a and r.b    *)
(* are the two values computed from the answer (dollar: usd_inr, aed_inr;  *)
(* gold, gold_noapi: gold_10g, silver_10g), None where the answer lacks    *)
(* what the value needs.                                                   *)

\* a cache dict with the two values
Cache(x, y) == [full |-> TRUE, a |-> x, b |-> y]

FirstValues(P) == IF P = "dollar" THEN {8300, 8345} ELSE {7212345, 12345678}
SecondValues(P) == IF P = "dollar" THEN {2261} ELSE {143250}

\* what the requests of an iteration can yield
Answers(P) ==
    {[ok |-> TRUE, a |-> x, b |-> y] : x \in FirstValues(P) \cup {None},
                                      y \in SecondValues(P) \cup {None}}
Fetches(P) ==
    CASE P = "dollar" ->
             {Failed} \cup {r \in Answers(P) : r.a # None \/ r.b = None}
      [] P = "gold_noapi" ->
             {Failed} \cup {r \in Answers(P) : (r.a = None) = (r.b = None)}
      [] OTHER ->
             {Failed} \cup {r \in Answers(P) : r.a # None \/ r.b # None}

\* the caches an earlier run can have left in CACHE_FILE
Caches(P) ==
    {NoCache} \cup {Cache(x, y) : x \in FirstValues(P) \cup {None},
                                  y \in SecondValues(P) \cup {None}}

\* save_cache(d): an error is swallowed and the file stays
save_cache(d, writable) == IF writable THEN d ELSE cache_file

\* load_cache() or {}
load_cache(readable) == IF readable THEN cache_file ELSE NoCache

\* main before its loop: cache = load_cache() or {}
PriceInit ==
    /\ RotatorOff
    /\ LoopOff
    /\ QuoteOff
    /\ FunpackOff
    /\ WordOff
    /\ LineOff
    /\ MarkerOff
    /\ prog \in PricePrograms
    /\ full_s = <<>>
    /\ base_time = 0
    /\ now_ts = 0
    /\ window = <<>>
    /\ dpc = "loop"
    /\ prev = NoCall
    /\ cache_file \in Caches(prog)
    /\ cache \in {cache_file, NoCache}
    /\ rates = Failed
    /\ vals = <<None, None>>
    /\ used_cache = FALSE
    /\ lines = <<>>

priceFrame == <<rotVars, dispVars, tqVars, fpVars, wdVars, lnVars, mkVars>>

\* dollar: one iteration of main
dollar_main(r, writable) ==
    /\ prog = "dollar"
    /\ rates' = r
    /\ IF r.ok
       THEN /\ vals' = <<r.a, r.b>>
            /\ used_cache' = FALSE
            /\ cache' = Cache(r.a, r.b)
            /\ cache_file' = save_cache(cache', writable)
       ELSE /\ IF cache.full
               THEN vals' = <<cache.a, cache.b>> /\ used_cache' = TRUE
               ELSE vals' = <<None, None>> /\ used_cache' = FALSE
            /\ UNCHANGED <<cache, cache_file>>
    /\ lines' = <<build_line(USD, vals'[1], used_cache'),
                  build_line(AED, vals'[2], used_cache')>>
    /\ UNCHANGED priceFrame

\* gold_noapi: one iteration of main
gold_noapi_main(r, readable, writable) ==
    /\ prog = "gold_noapi"
    /\ rates' = r
    /\ IF r.ok
       THEN /\ vals' = <<r.a, r.b>>
            /\ used_cache' = FALSE
            /\ IF r.a # None
               THEN /\ cache' = Cache(r.a, r.b)
                    /\ cache_file' = save_cache(cache', writable)
               ELSE UNCHANGED <<cache, cache_file>>
       ELSE /\ LET c == IF load_cache(readable).full
                        THEN load_cache(readable) ELSE cache
               IN  IF c.full
                   THEN vals' = <<c.a, c.b>> /\ used_cache' = TRUE
                   ELSE vals' = <<None, None>> /\ used_cache' = FALSE
            /\ UNCHANGED <<cache, cache_file>>
    /\ lines' = <<gold_noapi_fmt(GOLD, vals'[1], used_cache'),
                  gold_noapi_fmt(SILV, vals'[2], used_cache')>>
    /\ UNCHANGED priceFrame

\* gold: one iteration of main
gold_main(r, writable) ==
    /\ prog = "gold"
    /\ rates' = r
    /\ IF r.a # None \/ r.b # None
       THEN /\ vals' = <<IF r.a # None THEN r.a ELSE cache.a,
                         IF r.b # None THEN r.b ELSE cache.b>>
            /\ used_cache' = FALSE
            /\ cache' = Cache(vals'[1], vals'[2])
            /\ cache_file' = save_cache(cache', writable)
       ELSE /\ IF cache.full
               THEN vals' = <<cache.a, cache.b>> /\ used_cache' = TRUE
               ELSE vals' = <<None, None>> /\ used_cache' = FALSE
            /\ UNCHANGED <<cache, cache_file>>
    /\ lines' = <<gold_fmt(GOLD, vals'[1], used_cache'),
                  gold_fmt(SILV, vals'[2], used_cache')>>
    /\ UNCHANGED priceFrame

PriceNext ==
    \/ \E r \in Fetches("dollar"), writable \in BOOLEAN :
           dollar_main(r, writable)
    \/ \E r \in Fetches("gold_noapi"), readable, writable \in BOOLEAN :
           gold_noapi_main(r, readable, writable)
    \/ \E r \in Fetches("gold"), writable \in BOOLEAN : gold_main(r, writable)

PriceSpec == PriceInit /\ [][PriceNext]_vars

\* C33: in dollar.py an iteration changes the cache, in memory or in the
\* file, only when it has computed both rates, and it never replaces a
\* cached rate by a missing one.
C33_SaveOnlyBothRates ==
    [][prog = "dollar" =>
           /\ (cache' # cache \/ cache_file' # cache_file) =>
                  (rates'.a # None /\ rates'.b # None)
           /\ cache.a # None => cache'.a # None
           /\ cache.b # None => cache'.b # None
           /\ cache_file.a # None => cache_file'.a # None
           /\ cache_file.b # None => cache_file'.b # None]_vars

\* the cached marker is visible on the line
Marked(l) == \E i \in 1..Min(Len(l), COLS) : l[i] = "C"

\* C34: an iteration that does not obtain both values fresh while the cache
\* (in memory, and in the file where the program reads it again) holds a
\* value shows the cached values on lines that carry the cached marker; and
\* a value that was not obtained in this iteration is never shown on a line
\* without the marker.
C34_CacheFallbackMarked ==
    [][/\ (/\ ~(rates'.a # None /\ rates'.b # None)
           /\ cache.full
           /\ (cache.a # None \/ cache.b # None)
           /\ (prog = "gold_noapi" => cache_file = cache))
          => /\ vals' = <<cache.a, cache.b>>
             /\ used_cache'
             /\ \A k \in 1..2 : vals'[k] # None => Marked(lines'[k])
       /\ (vals'[1] # None /\ rates'.a = None) => Marked(lines'[1])
       /\ (vals'[2] # None /\ rates'.b = None) => Marked(lines'[2])]_vars

(* ==================== crypto: the update marker ======================= *)
(* One step is one iteration of the loop of main; datetime.now() and       *)
(* time.time() read the same clock, and the rows are written when          *)
(* show_star has been computed.                                            *)

UPDATED_DISPLAY_SECONDS == 300

\* show_star on every row
show_star_Always(lu, now) == TRUE

\* show_star: last_update_time is set and at most UPDATED_DISPLAY_SECONDS old
show_star(lu, now) == lu # None /\ now - lu <= UPDATED_DISPLAY_SECONDS

\* "ETH: ERR".ljust(16)
ETH_ERR == ljust(<<"E", "T", "H", ":", " ">> \o ERR, 16)

\* main before its loop
MarkerInit ==
    /\ RotatorOff
    /\ QuoteOff
    /\ FunpackOff
    /\ WordOff
    /\ LineOff
    /\ PriceOff
    /\ prog = "crypto"
    /\ full_s = <<>>
    /\ base_time = 0
    /\ now_ts = 0
    /\ window = <<>>
    /\ dpc = "loop"
    /\ prev = NoCall
    /\ clock = StartClock
    /\ last_fetch = 0
    /\ btc_price = None
    /\ ip = NoText
    /\ root_pct = None
    /\ temp_c = None
    /\ previous_ip = NoText
    /\ previous_root_pct = None
    /\ last_update_time = None
    /\ eth_price = None
    /\ eth_change = NoChange
    /\ eth_display = <<>>
    /\ drawn_at = 0
    /\ last_success = None

markerFrame == <<rotVars, rowVars, btc_price, sysVars, tqVars, fpVars, wdVars,
                 lnVars, pxVars>>

\* the ETH row of an iteration that reaches the rows at time t
DrawEth(t) ==
    /\ eth_display' = build_eth_line(eth_price', eth_change',
                                     show_star(last_update_time', t))
    /\ drawn_at' = t

\* the fetch is due and fails: both rows show ERR, and the loop continues
\* after a second
marker_fetch_error(lat) ==
    /\ Followed
    /\ Due
    /\ eth_display' = ETH_ERR
    /\ drawn_at' = clock + lat
    /\ last_fetch' = clock
    /\ clock' = clock + lat + ERROR_SLEEP
    /\ UNCHANGED <<last_update_time, eth_price, eth_change, last_success,
                   markerFrame>>

\* the fetch is due and succeeds
marker_fetch(price_raw, change_raw, lat) ==
    /\ Followed
    /\ Due
    /\ eth_price' = price_raw
    /\ eth_change' = change_raw
    /\ last_update_time' = clock + lat
    /\ last_success' = clock + lat
    /\ last_fetch' = clock
    /\ DrawEth(clock + lat)
    /\ clock' = clock + lat + LOOP_SLEEP
    /\ UNCHANGED markerFrame

\* an iteration in which no fetch is due
marker_idle ==
    /\ Followed
    /\ ~Due
    /\ UNCHANGED <<last_update_time, eth_price, eth_change, last_success,
                   last_fetch>>
    /\ DrawEth(clock)
    /\ clock' = clock + LOOP_SLEEP
    /\ UNCHANGED markerFrame

MarkerNext ==
    \/ \E lat \in Latencies : marker_fetch_error(lat)
    \/ \E price_raw \in Prices, change_raw \in Changes, lat \in Latencies :
           marker_fetch(price_raw, change_raw, lat)
    \/ marker_idle

MarkerSpec == MarkerInit /\ [][MarkerNext]_vars

\* C37: the ETH row written last has '*' in its last column exactly when a
\* fetch has succeeded and the row was written at most
\* UPDATED_DISPLAY_SECONDS after the last fetch that succeeded; so a failed
\* fetch neither shows the marker nor starts its time anew.
C37_UpdateMarker ==
    eth_display # <<>> =>
        /\ Len(eth_display) = 16
        /\ (eth_display[16] = "*") <=>
               /\ last_success # None
               /\ drawn_at - last_success <= UPDATED_DISPLAY_SECONDS

\* a row written exactly UPDATED_DISPLAY_SECONDS after an update that was
\* not the first one
C37_Witness ==
    /\ last_success # None
    /\ drawn_at = last_success + UPDATED_DISPLAY_SECONDS
    /\ last_success > StartClock + UPDATE_INTERVAL["crypto"]
    /\ eth_display[16] = "*"

====
